---- MODULE Spec2Model ----
(***************************************************************************)
(* Model of the click-capture extension's persistence layer                *)
(* (js/idb-helper.js), the quota enforcer and capture pipeline of the      *)
(* service worker (js/service-worker.js), the popup (js/popup.js) and the  *)
(* tutorial edit page (edit-tutorial script).                              *)
(*                                                                         *)
(* Scheduling.  Every storage operation is an IndexedDB transaction.       *)
(* IndexedDB runs transactions whose scopes overlap in the order in which  *)
(* they were created, and the promise continuation of a request runs in    *)
(* the task that delivers its result, before any transaction created       *)
(* later on the same store may start.  idbQueue holds the transactions     *)
(* created and not yet run; one action runs a transaction that no earlier  *)
(* overlapping transaction blocks, together with the continuation of the   *)
(* call chain that awaits it, up to the next await.                        *)
(***************************************************************************)
EXTENDS Integers, Sequences, FiniteSets, TLC

\* ----------------------------------------------------------------- bounds
MaxClock == 3
MaxClicks == 3
MaxFaults == 1
MaxEdits == 2
MaxPopups == 1
MaxDeletes == 1
MaxStoreOps == 1

\* -------------------------------------------------------------- constants
Null == 0
DB_VERSION == 3
DefaultQuotaMB == 100
DefaultRetentionDays == 7
DebounceTicks == 1

Tabs == {1, 2}
Chains == {"c1", "c2"}
SwProcs == Chains \cup {"cleanup"}
EdOps == {"e1", "e2"}
currentTutorialId == 1
ImageSizes == {409600, 1228800}
QuotaChoices == {1, -1}
RetentionChoices == {1}

STORE_SCREENSHOTS == "screenshots"
STORE_TUTORIALS == "tutorials"
STORE_HEADERS == "tutorialHeaders"
STORE_TUTORIAL_STEPS == "tutorialSteps"

VARIABLES
  screenshots,        \* object store: set of [id, timestamp, imageSizeBytes, tutorialId]
  nextScreenshotId,   \* the store's autoIncrement key generator
  tutorials,          \* object store: set of [id, coverImageId]
  headers,            \* object store: set of [id, tutorialId, order]
  steps,              \* object store: set of [id, headerId, screenshotId, order]
  nextTutorialId,     \* autoIncrement key generators
  nextHeaderId,
  nextStepId,
  now,                \* wall clock (Date.now / new Date())
  storageQuotaMB,     \* chrome.storage.local setting
  retentionDays,      \* chrome.storage.local setting
  captureEnabled,     \* chrome.storage.local setting
  cs,                 \* content script of each tab: settings copy, lastClickTime, timers
  runtimeMessages,    \* chrome.runtime messages sent to the service worker, not yet dispatched
  schema,             \* on-disk schema: object stores and the indexes of each
  dbVersion,          \* on-disk version of the database
  db,                 \* idb-helper's module variable: the cached connection
  opened,             \* number of indexedDB.open requests made so far
  openRequests,       \* open requests not yet served, in the order they were made
  conn,               \* callers of initDB: where they are, the handle they got
  prior,              \* the on-disk schema before any upgrade
  received,           \* CAPTURE_CLICK messages received so far: sender tab, time
  calls,              \* their handlers awaiting a chrome.storage read, oldest read first
  timers,             \* service worker: armed debounce timers
  timerOf,            \* service worker: the Map debouncedCaptures, tab -> timer
  fired,              \* messages whose debounce timer has fired, in order
  faults,             \* number of storage requests that have failed so far
  stepCounter,        \* chrome.storage.local value
  debouncedCaptures,  \* service worker: tab -> a capture timer is pending
  clicks,             \* number of clicks the user will still make
  sw,                 \* service worker call chains (captures, cleanup)
  currentHeadersData, \* edit page: cached headers, each with its steps
  domHeaders,         \* edit page: ids of the rendered header editors
  domSteps,           \* edit page: step objects of the rendered step editors
  ed,                 \* edit page: event handlers in flight
  edits,              \* number of edit page handlers the user will still start
  pop,                \* popup: handler in flight
  del,                \* tutorials page: deleteTutorial in flight
  rt,                 \* observer of a move up / move down round trip
  idbQueue            \* IndexedDB transactions created and not yet run

shotVars == <<screenshots, nextScreenshotId>>
tutVars == <<tutorials, headers, steps, nextTutorialId, nextHeaderId, nextStepId>>
csVars == <<captureEnabled, cs, runtimeMessages>>
dbVars == <<schema, dbVersion, db, opened, openRequests, conn, prior>>
burstVars == <<received, calls, timers, timerOf, fired>>
setVars == <<storageQuotaMB, retentionDays, csVars, dbVars, burstVars>>
swVars == <<stepCounter, debouncedCaptures, clicks, sw>>
pageVars == <<currentHeadersData, domHeaders, domSteps>>
edVars == <<pageVars, ed, edits, rt>>
uiVars == <<edVars, pop, del>>

vars == <<shotVars, tutVars, setVars, now, faults, swVars, uiVars, idbQueue>>

\* ------------------------------------------------------ IndexedDB scheduling
Pending(p) == \E i \in 1..Len(idbQueue) : idbQueue[i].p = p

\* Two transactions conflict when their scopes overlap and one of them writes.
Conflict(e1, e2) ==
  /\ e1.scope \cap e2.scope # {}
  /\ "readwrite" \in {e1.mode, e2.mode}

Runnable(p) ==
  \E i \in 1..Len(idbQueue) :
    /\ idbQueue[i].p = p
    /\ \A j \in 1..(i - 1) : ~Conflict(idbQueue[j], idbQueue[i])

Dequeue(p) == SelectSeq(idbQueue, LAMBDA e : e.p # p)

Enqueue(q, p, scope, mode) ==
  Append(q, [p |-> p, scope |-> scope, mode |-> mode])

\* ------------------------------------------------------ screenshot queries
RECURSIVE SumSizes(_)
SumSizes(S) ==
  IF S = {} THEN 0
  ELSE LET s == CHOOSE x \in S : TRUE
       IN  s.imageSizeBytes + SumSizes(S \ {s})

getTotalStorageUsed == SumSizes(screenshots)

InTimestampIndex(S) == {s \in S : s.timestamp # Null}

\* The cursor opened in the direction 'prev': the newest record first.
getNewestScreenshots ==
  LET T == InTimestampIndex(screenshots)
  IN  IF T = {} THEN <<>>
      ELSE <<CHOOSE s \in T : \A r \in T :
                \/ s.timestamp > r.timestamp
                \/ s.timestamp = r.timestamp /\ s.id >= r.id>>

getOldestScreenshots ==
  LET T == InTimestampIndex(screenshots)
  IN  IF T = {} THEN <<>>
      ELSE <<CHOOSE s \in T : \A r \in T :
                \/ s.timestamp < r.timestamp
                \/ s.timestamp = r.timestamp /\ s.id <= r.id>>

\* The range closed at the cutoff.
getScreenshotsNotNewerThan(cutoff) ==
  {s \in InTimestampIndex(screenshots) : s.timestamp <= cutoff}

\* index.getAll(IDBKeyRange.upperBound(isoTimestamp, true)).
getScreenshotsOlderThan(cutoff) ==
  {s \in InTimestampIndex(screenshots) : s.timestamp < cutoff}

\* A deletion that removes no record.
deleteScreenshotsNothing(ids) == screenshots

deleteScreenshots(ids) == {s \in screenshots : s.id \notin ids}

normalizeTutorialId(t) == IF t > 0 THEN t ELSE Null

addScreenshot(ts, size, tut) ==
  screenshots \cup {[id |-> nextScreenshotId, timestamp |-> ts,
                     imageSizeBytes |-> size,
                     tutorialId |-> normalizeTutorialId(tut)]}

maxSizeBytes(quotaMB) == quotaMB * 1024 * 1024

\* --------------------------------------------------------- service worker
IdleSw == [pc |-> "idle", tab |-> Null, size |-> 0, quota |-> Null,
           total |-> 0, item |-> <<>>, ids |-> {}, made |-> FALSE,
           res |-> "none", counter |-> 0, ts |-> Null, sent |-> {},
           badge |-> ""]

\* A chain that has ended keeps what it reported: the result of its quota
\* check, the last screenshot it evicted, its badge and the messages it sent.
Finished(r, res, badge) ==
  [IdleSw EXCEPT !.tab = r.tab, !.size = r.size, !.quota = r.quota,
                 !.made = r.made, !.item = r.item, !.sent = r.sent,
                 !.res = res, !.badge = badge]

EnforcePcs == {"getTotal", "getOldest", "delete"}

\* The capture goes on to the thumbnail whatever the quota check returned.
AfterEnforceResultIgnored(r, ok) ==
  IF r.tab = Null
  THEN Finished(r, IF ok THEN "true" ELSE "false", "")
  ELSE [r EXCEPT !.pc = "thumb", !.res = IF ok THEN "true" ELSE "false"]

\* What the caller of enforceStorageQuota does with the result, up to its
\* next await: a capture goes on to the thumbnail or gives up with the FULL
\* badge; the cleanup ends.
AfterEnforce(r, ok) ==
  IF r.tab = Null
  THEN Finished(r, IF ok THEN "true" ELSE "false", "")
  ELSE IF ok
       THEN [r EXCEPT !.pc = "thumb", !.res = "true"]
       ELSE Finished(r, "false", "FULL")

\* Only an unset quota counts as no quota.
NoQuotaUnsetOnly(quotaMB) == quotaMB = Null

\* No quota or invalid quota: !storageQuotaMB || storageQuotaMB <= 0.
NoQuota(quotaMB) == quotaMB = Null \/ quotaMB <= 0

\* enforceStorageQuota up to its first await.
EnforceCall(p, r, size, quotaMB, q) ==
  LET r1 == [r EXCEPT !.size = size, !.quota = quotaMB, !.total = 0,
                      !.item = <<>>, !.made = FALSE, !.res = "none"]
  IN  IF NoQuota(quotaMB)
      THEN /\ sw' = [sw EXCEPT ![p] = AfterEnforce(r1, TRUE)]
           /\ idbQueue' = q
      ELSE /\ sw' = [sw EXCEPT ![p] = [r1 EXCEPT !.pc = "getTotal"]]
           /\ idbQueue' = Enqueue(q, p, {STORE_SCREENSHOTS}, "readonly")

\* The loop test without the size of the new image.
ExceedsWithoutNewImage(total, size, quotaMB) == total > maxSizeBytes(quotaMB)

Exceeds(total, size, quotaMB) == total + size > maxSizeBytes(quotaMB)

\* The oversize test left out.
OversizeNotTested(size, quotaMB) == FALSE

\* The new image alone exceeds the quota.
Oversize(size, quotaMB) == size > maxSizeBytes(quotaMB)

\* getTotalStorageUsed resolves; the oversize check and the first loop test.
EnforceGotTotal(p) ==
  /\ sw[p].pc = "getTotal"
  /\ Runnable(p)
  /\ LET r == [sw[p] EXCEPT !.total = getTotalStorageUsed]
     IN  IF Oversize(r.size, r.quota)
         THEN /\ sw' = [sw EXCEPT ![p] = AfterEnforce(r, FALSE)]
              /\ idbQueue' = Dequeue(p)
         ELSE IF Exceeds(r.total, r.size, r.quota)
              THEN /\ sw' = [sw EXCEPT ![p] = [r EXCEPT !.pc = "getOldest"]]
                   /\ idbQueue' = Enqueue(Dequeue(p), p, {STORE_SCREENSHOTS}, "readonly")
              ELSE /\ sw' = [sw EXCEPT ![p] = AfterEnforce(r, TRUE)]
                   /\ idbQueue' = Dequeue(p)
  /\ UNCHANGED <<shotVars, tutVars, setVars, uiVars, now, faults, stepCounter,
                 debouncedCaptures, clicks>>

\* getOldestScreenshots(1) resolves.
EnforceGotOldest(p) ==
  /\ sw[p].pc = "getOldest"
  /\ Runnable(p)
  /\ LET oldestItems == getOldestScreenshots
     IN  IF Len(oldestItems) > 0
         THEN /\ sw' = [sw EXCEPT ![p] = [@ EXCEPT !.pc = "delete",
                                                   !.item = oldestItems]]
              /\ idbQueue' = Enqueue(Dequeue(p), p, {STORE_SCREENSHOTS}, "readwrite")
         ELSE /\ sw' = [sw EXCEPT ![p] = AfterEnforce(sw[p], FALSE)]
              /\ idbQueue' = Dequeue(p)
  /\ UNCHANGED <<shotVars, tutVars, setVars, uiVars, now, faults, stepCounter,
                 debouncedCaptures, clicks>>

Clamp(n) == IF n < 0 THEN 0 ELSE n

\* A storage request may fail while the fault budget lasts.
FaultChoice == IF faults < MaxFaults THEN {FALSE, TRUE} ELSE {FALSE}

Fault(fail) == faults' = IF fail THEN faults + 1 ELSE faults

\* An exception reaches the catch block of the call chain: a capture shows
\* the ERR badge, the cleanup logs; either ends.
Thrown(r) ==
  IF r.tab = Null
  THEN Finished(r, "error", "")
  ELSE Finished(r, "error", "ERR")

\* An eviction that also deletes the steps showing the screenshot.
EnforceDeletedWithSteps(p) ==
  /\ sw[p].pc = "delete"
  /\ Runnable(p)
  /\ \E fail \in FaultChoice :
       /\ Fault(fail)
       /\ IF fail
          THEN /\ screenshots' = screenshots
               /\ steps' = steps
               /\ sw' = [sw EXCEPT ![p] = Thrown(@)]
               /\ idbQueue' = Dequeue(p)
          ELSE /\ screenshots' = deleteScreenshots({sw[p].item[1].id})
               /\ steps' = {st \in steps :
                                st.screenshotId # sw[p].item[1].id}
               /\ LET r == [sw[p] EXCEPT
                              !.total = Clamp(@ - sw[p].item[1].imageSizeBytes),
                              !.made = TRUE]
                  IN  IF Exceeds(r.total, r.size, r.quota)
                      THEN /\ sw' = [sw EXCEPT ![p] = [r EXCEPT !.pc = "getOldest"]]
                           /\ idbQueue' = Enqueue(Dequeue(p), p, {STORE_SCREENSHOTS}, "readonly")
                      ELSE /\ sw' = [sw EXCEPT ![p] = AfterEnforce(
                                [r EXCEPT !.sent = @ \cup {"STORAGE_UPDATED"}], TRUE)]
                           /\ idbQueue' = Dequeue(p)
  /\ UNCHANGED <<nextScreenshotId, tutorials, headers, nextTutorialId,
                 nextHeaderId, nextStepId, setVars, uiVars, now, stepCounter,
                 debouncedCaptures, clicks>>

\* deleteScreenshots([itemToDelete.id]) resolves; the running total is
\* reduced and the loop test is made again.
EnforceDeleted(p) ==
  /\ sw[p].pc = "delete"
  /\ Runnable(p)
  /\ \E fail \in FaultChoice :
       /\ Fault(fail)
       /\ IF fail
          THEN /\ screenshots' = screenshots
               /\ sw' = [sw EXCEPT ![p] = Thrown(@)]
               /\ idbQueue' = Dequeue(p)
          ELSE /\ screenshots' = deleteScreenshots({sw[p].item[1].id})
               /\ LET r == [sw[p] EXCEPT
                              !.total = Clamp(@ - sw[p].item[1].imageSizeBytes),
                              !.made = TRUE]
                  IN  IF Exceeds(r.total, r.size, r.quota)
                      THEN /\ sw' = [sw EXCEPT ![p] = [r EXCEPT !.pc = "getOldest"]]
                           /\ idbQueue' = Enqueue(Dequeue(p), p, {STORE_SCREENSHOTS}, "readonly")
                      ELSE /\ sw' = [sw EXCEPT ![p] = AfterEnforce(
                                [r EXCEPT !.sent = @ \cup {"STORAGE_UPDATED"}], TRUE)]
                           /\ idbQueue' = Dequeue(p)
  /\ UNCHANGED <<nextScreenshotId, tutVars, setVars, uiVars, now, stepCounter,
                 debouncedCaptures, clicks>>

\* ------------------------------------------------------- capture pipeline
OrDefault(v, d) == IF v = Null THEN d ELSE v

\* The CAPTURE_CLICK listener: handleCaptureAndStore replaces the tab's
\* pending timer.
CaptureClick(t) ==
  /\ clicks > 0
  /\ clicks' = clicks - 1
  /\ debouncedCaptures' = [debouncedCaptures EXCEPT ![t] = TRUE]
  /\ UNCHANGED <<shotVars, tutVars, setVars, uiVars, now, faults, stepCounter, sw,
                 idbQueue>>

\* The debounce timer of tab t fires and its callback starts, up to the
\* read of the screenshot settings.
TimerFires(t, c) ==
  /\ debouncedCaptures[t]
  /\ sw[c].pc = "idle"
  /\ c = "c2" => sw["c1"].pc # "idle"
  /\ debouncedCaptures' = [debouncedCaptures EXCEPT ![t] = FALSE]
  /\ sw' = [sw EXCEPT ![c] = [IdleSw EXCEPT !.pc = "settings", !.tab = t]]
  /\ UNCHANGED <<shotVars, tutVars, setVars, uiVars, now, faults, stepCounter,
                 clicks, idbQueue>>

\* chrome.storage.local.get of format, quality and quota resolves.
CaptureSettings(c) ==
  /\ sw[c].pc = "settings"
  /\ sw' = [sw EXCEPT ![c] = [@ EXCEPT !.pc = "capture",
                                       !.quota = storageQuotaMB]]
  /\ UNCHANGED <<shotVars, tutVars, setVars, uiVars, now, faults, stepCounter,
                 debouncedCaptures, clicks, idbQueue>>

\* captureVisibleTab and the conversion to a Blob resolve (or throw); the
\* quota check is called with the Blob's size.
CaptureVisibleTab(c) ==
  /\ sw[c].pc = "capture"
  /\ \E ok \in BOOLEAN :
       IF ok
       THEN \E size \in ImageSizes :
              EnforceCall(c, sw[c], size,
                          OrDefault(sw[c].quota, DefaultQuotaMB), idbQueue)
       ELSE /\ sw' = [sw EXCEPT ![c] = Thrown(@)]
            /\ idbQueue' = idbQueue
  /\ UNCHANGED <<shotVars, tutVars, setVars, uiVars, now, faults, stepCounter,
                 debouncedCaptures, clicks>>

\* getThumbnailFromOffscreen resolves or rejects (the capture goes on
\* without a thumbnail); the step counter is requested.
CaptureThumbnail(c) ==
  /\ sw[c].pc = "thumb"
  /\ sw' = [sw EXCEPT ![c] = [@ EXCEPT !.pc = "getCounter"]]
  /\ UNCHANGED <<shotVars, tutVars, setVars, uiVars, now, faults, stepCounter,
                 debouncedCaptures, clicks, idbQueue>>

\* chrome.storage.local.get({stepCounter: 0}) resolves; stepCounter++.
CaptureGotCounter(c) ==
  /\ sw[c].pc = "getCounter"
  /\ sw' = [sw EXCEPT ![c] = [@ EXCEPT !.pc = "setCounter",
                                       !.counter = stepCounter + 1]]
  /\ UNCHANGED <<shotVars, tutVars, setVars, uiVars, now, faults, stepCounter,
                 debouncedCaptures, clicks, idbQueue>>

\* chrome.storage.local.set({stepCounter}) resolves; the record is built
\* with the current time and addScreenshot is called.
CaptureSetCounter(c) ==
  /\ sw[c].pc = "setCounter"
  /\ stepCounter' = sw[c].counter
  /\ sw' = [sw EXCEPT ![c] = [@ EXCEPT !.pc = "add", !.ts = now]]
  /\ idbQueue' = Enqueue(idbQueue, c, {STORE_SCREENSHOTS}, "readwrite")
  /\ UNCHANGED <<shotVars, tutVars, setVars, uiVars, now, faults,
                 debouncedCaptures, clicks>>

\* addScreenshot resolves with the new id (SCREENSHOT_TAKEN is sent) or
\* rejects.
CaptureAdded(c) ==
  /\ sw[c].pc = "add"
  /\ Runnable(c)
  /\ idbQueue' = Dequeue(c)
  /\ \E fail \in FaultChoice :
       /\ Fault(fail)
       /\ IF fail
          THEN /\ UNCHANGED shotVars
               /\ sw' = [sw EXCEPT ![c] = Thrown(@)]
          ELSE /\ screenshots' = addScreenshot(sw[c].ts, sw[c].size, Null)
               /\ nextScreenshotId' = nextScreenshotId + 1
               /\ sw' = [sw EXCEPT ![c] = Finished(
                             [@ EXCEPT !.sent = @ \cup {"SCREENSHOT_TAKEN"}],
                             "true", "")]
  /\ UNCHANGED <<tutVars, setVars, uiVars, now, stepCounter, debouncedCaptures,
                 clicks>>

\* ---------------------------------------------------------- daily cleanup
\* The cleanup alarm fires: performCleanup up to the read of the settings.
CleanupAlarm ==
  /\ sw["cleanup"].pc = "idle"
  /\ sw' = [sw EXCEPT !["cleanup"] = [IdleSw EXCEPT !.pc = "cl_settings"]]
  /\ UNCHANGED <<shotVars, tutVars, setVars, uiVars, now, faults, stepCounter,
                 debouncedCaptures, clicks, idbQueue>>

\* The settings are read; the cutoff date is computed and the screenshots
\* older than it are requested.
CleanupSettings ==
  /\ sw["cleanup"].pc = "cl_settings"
  /\ sw' = [sw EXCEPT !["cleanup"] = [@ EXCEPT
              !.pc = "cl_older",
              !.quota = OrDefault(storageQuotaMB, DefaultQuotaMB),
              !.ts = now - OrDefault(retentionDays, DefaultRetentionDays)]]
  /\ idbQueue' = Enqueue(idbQueue, "cleanup", {STORE_SCREENSHOTS}, "readonly")
  /\ UNCHANGED <<shotVars, tutVars, setVars, uiVars, now, faults, stepCounter,
                 debouncedCaptures, clicks>>

\* getScreenshotsOlderThan resolves: the old screenshots are deleted, or,
\* when there is none, the quota check is called with size 0.
CleanupGotOlder ==
  /\ sw["cleanup"].pc = "cl_older"
  /\ Runnable("cleanup")
  /\ LET oldScreenshots == getScreenshotsOlderThan(sw["cleanup"].ts)
         q == Dequeue("cleanup")
     IN  IF oldScreenshots # {}
         THEN /\ sw' = [sw EXCEPT !["cleanup"] = [@ EXCEPT
                          !.pc = "cl_delete",
                          !.ids = {s.id : s \in oldScreenshots}]]
              /\ idbQueue' = Enqueue(q, "cleanup", {STORE_SCREENSHOTS}, "readwrite")
         ELSE EnforceCall("cleanup", sw["cleanup"], 0, sw["cleanup"].quota, q)
  /\ UNCHANGED <<shotVars, tutVars, setVars, uiVars, now, faults, stepCounter,
                 debouncedCaptures, clicks>>

\* deleteScreenshots(idsToDelete) resolves (STORAGE_UPDATED is sent and the
\* quota check is called) or rejects (the cleanup ends in its catch block).
CleanupDeleted ==
  /\ sw["cleanup"].pc = "cl_delete"
  /\ Runnable("cleanup")
  /\ \E fail \in FaultChoice :
       /\ Fault(fail)
       /\ IF fail
          THEN /\ screenshots' = screenshots
               /\ sw' = [sw EXCEPT !["cleanup"] = Thrown(@)]
               /\ idbQueue' = Dequeue("cleanup")
          ELSE /\ screenshots' = deleteScreenshots(sw["cleanup"].ids)
               /\ EnforceCall("cleanup",
                     [sw["cleanup"] EXCEPT !.sent = @ \cup {"STORAGE_UPDATED"}],
                     0, sw["cleanup"].quota, Dequeue("cleanup"))
  /\ UNCHANGED <<nextScreenshotId, tutVars, setVars, uiVars, now, stepCounter,
                 debouncedCaptures, clicks>>

\* Time passes.
Tick ==
  /\ now < MaxClock
  /\ now' = now + 1
  /\ UNCHANGED <<shotVars, tutVars, setVars, uiVars, faults, swVars, idbQueue>>

\* ------------------------------------------------- tutorial store queries
\* The records of S as an index on (order, primary key) returns them.
RECURSIVE ByOrder(_)
ByOrder(S) ==
  IF S = {} THEN <<>>
  ELSE LET m == CHOOSE x \in S : \A y \in S :
                  \/ x.order < y.order
                  \/ x.order = y.order /\ x.id <= y.id
       IN  <<m>> \o ByOrder(S \ {m})

getHeadersForTutorial(tutorialId) ==
  ByOrder({h \in headers : h.tutorialId = tutorialId})

getStepsForHeader(headerId) ==
  ByOrder({st \in steps : st.headerId = headerId})

\* The index headerId_order created without unique: true.
headerId_order_notUnique(rec) == FALSE

\* The unique index headerId_order of the step store: the request that
\* stores rec fails when another step holds the same (headerId, order).
headerId_order(rec) ==
  \E st \in steps : /\ st.id # rec.id
                    /\ st.headerId = rec.headerId
                    /\ st.order = rec.order

\* updateHeader(headerId, {order}): get and put in one transaction.
updateHeader(headerId, order) ==
  {IF h.id = headerId THEN [h EXCEPT !.order = order] ELSE h : h \in headers}

\* updateTutorialStep(stepId, dataToUpdate): the stored record overlaid with
\* the fields of dataToUpdate.
updateTutorialStep(stepId, updated) ==
  {IF st.id = stepId THEN updated ELSE st : st \in steps}

\* --------------------------------------------------------------- edit page
IdleEd == [pc |-> "idle", kind |-> "", dir |-> "", a |-> Null, b |-> Null,
           oa |-> 0, ob |-> 0, temp |-> 0, list |-> <<>>, stale |-> FALSE,
           step |-> <<>>, size |-> 0, res |-> "none"]

FreeEd(e) ==
  /\ ed[e].pc = "idle"
  /\ e = "e2" => ed["e1"].pc # "idle"
  /\ edits > 0

\* findIndex over a list of records with an id; 0 when there is none.
FindIndex(list, id) ==
  IF \E i \in 1..Len(list) : list[i].id = id
  THEN CHOOSE i \in 1..Len(list) :
         /\ list[i].id = id
         /\ \A j \in 1..(i - 1) : list[j].id # id
  ELSE 0

\* The first cached header that holds the step; 0 when there is none.
HeaderOfStep(stepId) ==
  IF \E i \in 1..Len(currentHeadersData) :
       FindIndex(currentHeadersData[i].steps, stepId) # 0
  THEN CHOOSE i \in 1..Len(currentHeadersData) :
         /\ FindIndex(currentHeadersData[i].steps, stepId) # 0
         /\ \A j \in 1..(i - 1) :
              FindIndex(currentHeadersData[j].steps, stepId) = 0
  ELSE 0

\* No handler of a page is running and no transaction is pending.
Quiet ==
  /\ \A e \in EdOps : ed[e].pc = "idle"
  /\ pop.pc = "idle"
  /\ del.pc = "idle"
  /\ idbQueue = <<>>

\* The order values of the group (the headers of one tutorial, the steps of
\* one header) the record belongs to.
GroupOrders(kind, id) ==
  IF kind = "header"
  THEN {[id |-> h.id, order |-> h.order] :
          h \in {x \in headers : \E y \in headers :
                   y.id = id /\ x.tutorialId = y.tutorialId}}
  ELSE {[id |-> st.id, order |-> st.order] :
          st \in {x \in steps : \E y \in steps :
                    y.id = id /\ x.headerId = y.headerId}}

\* rt observes a move up that starts while nothing else runs (phase 1),
\* its success (2), a move down of the same record that starts next (3) and
\* its success (4); anything else that starts ends the observation.
Rt0 == [phase |-> 0, kind |-> "", id |-> Null, snap |-> {}]

RtStart(kind, id, dir) ==
  IF kind \in {"header", "step"} /\ Quiet
  THEN IF dir = "up"
       THEN [phase |-> 1, kind |-> kind, id |-> id,
             snap |-> GroupOrders(kind, id)]
       ELSE IF rt.phase = 2 /\ rt.kind = kind /\ rt.id = id
            THEN [rt EXCEPT !.phase = 3]
            ELSE Rt0
  ELSE Rt0

RtEnd(res) ==
  IF rt.phase \in {1, 3}
  THEN IF res = "moved" THEN [rt EXCEPT !.phase = @ + 1] ELSE Rt0
  ELSE rt

\* An ended handler keeps its kind and its outcome.
EdFinished(r, res) == [IdleEd EXCEPT !.kind = r.kind, !.res = res]

\* loadTutorialData up to its first storage request: the page and the cache
\* are emptied.  Objects other handlers took from the old cache are no
\* longer part of it.
loadTutorialData(e, r, q) ==
  /\ currentHeadersData' = <<>>
  /\ domHeaders' = {}
  /\ domSteps' = {}
  /\ ed' = [x \in EdOps |->
              IF x = e THEN [r EXCEPT !.pc = "ld_tut", !.list = <<>>]
              ELSE IF ed[x].pc = "as" THEN [ed[x] EXCEPT !.stale = TRUE]
              ELSE ed[x]]
  /\ idbQueue' = Enqueue(q, e, {STORE_TUTORIALS}, "readonly")

\* What the page shows once every header of the cache is rendered.
RenderedSteps(cache) ==
  UNION {{cache[i].steps[j] : j \in 1..Len(cache[i].steps)} :
           i \in 1..Len(cache)}

\* getTutorialById resolves.
LoadGotTutorial(e) ==
  /\ ed[e].pc = "ld_tut"
  /\ Runnable(e)
  /\ IF \E t \in tutorials : t.id = currentTutorialId
     THEN /\ ed' = [ed EXCEPT ![e] = [@ EXCEPT !.pc = "ld_hdrs"]]
          /\ idbQueue' = Enqueue(Dequeue(e), e, {STORE_HEADERS}, "readonly")
     ELSE /\ ed' = [ed EXCEPT ![e] = EdFinished(@, "notfound")]
          /\ idbQueue' = Dequeue(e)
  /\ rt' = IF \E t \in tutorials : t.id = currentTutorialId
           THEN rt ELSE RtEnd("notfound")
  /\ UNCHANGED <<shotVars, tutVars, setVars, now, faults, swVars, pageVars,
                 edits, pop, del>>

\* getHeadersForTutorial resolves: the steps of the first header are
\* requested, or the empty tutorial is rendered.
LoadGotHeaders(e) ==
  /\ ed[e].pc = "ld_hdrs"
  /\ Runnable(e)
  /\ LET headersFromDB == getHeadersForTutorial(currentTutorialId)
     IN  IF Len(headersFromDB) > 0
         THEN /\ ed' = [ed EXCEPT ![e] = [@ EXCEPT !.pc = "ld_steps",
                                                   !.list = headersFromDB]]
              /\ idbQueue' = Enqueue(Dequeue(e), e, {STORE_TUTORIAL_STEPS},
                                     "readonly")
              /\ UNCHANGED pageVars
         ELSE /\ ed' = [ed EXCEPT ![e] = EdFinished(ed[e], ed[e].res)]
              /\ idbQueue' = Dequeue(e)
              /\ domHeaders' = domHeaders \cup
                                 {currentHeadersData[i].id :
                                    i \in 1..Len(currentHeadersData)}
              /\ domSteps' = domSteps \cup RenderedSteps(currentHeadersData)
              /\ UNCHANGED currentHeadersData
  /\ rt' = IF Len(getHeadersForTutorial(currentTutorialId)) > 0
           THEN rt ELSE RtEnd(ed[e].res)
  /\ UNCHANGED <<shotVars, tutVars, setVars, now, faults, swVars, edits,
                 pop, del>>

\* getStepsForHeader resolves: the header joins the cache with its steps;
\* after the last header every header of the cache is rendered.
LoadGotSteps(e) ==
  /\ ed[e].pc = "ld_steps"
  /\ Runnable(e)
  /\ LET header == Head(ed[e].list)
         cached == [id |-> header.id, tutorialId |-> header.tutorialId,
                    order |-> header.order,
                    steps |-> getStepsForHeader(header.id)]
         cache == Append(currentHeadersData, cached)
         rest == Tail(ed[e].list)
     IN  /\ currentHeadersData' = cache
         /\ IF Len(rest) > 0
            THEN /\ ed' = [ed EXCEPT ![e] = [@ EXCEPT !.list = rest]]
                 /\ idbQueue' = Enqueue(Dequeue(e), e, {STORE_TUTORIAL_STEPS},
                                        "readonly")
                 /\ UNCHANGED <<domHeaders, domSteps>>
            ELSE /\ ed' = [ed EXCEPT ![e] = EdFinished(ed[e], ed[e].res)]
                 /\ idbQueue' = Dequeue(e)
                 /\ domHeaders' = domHeaders \cup
                                    {cache[i].id : i \in 1..Len(cache)}
                 /\ domSteps' = domSteps \cup RenderedSteps(cache)
  /\ rt' = IF Len(ed[e].list) > 1 THEN rt ELSE RtEnd(ed[e].res)
  /\ UNCHANGED <<shotVars, tutVars, setVars, now, faults, swVars, edits,
                 pop, del>>

\* A neighbour index that wraps around at the ends of the group.
OtherIndexWrapping(dir, index, len) ==
  IF dir = "up" THEN (IF index = 1 THEN len ELSE index - 1)
  ELSE IF index = len THEN 1 ELSE index + 1

\* The boundary tests and otherIndex of moveHeader / moveStep: the index of
\* the neighbour the record is swapped with, 0 when the handler returns at
\* a boundary.
OtherIndex(dir, index, len) ==
  IF dir = "up" /\ index = 1 THEN 0
  ELSE IF dir = "down" /\ index = len THEN 0
  ELSE IF dir = "up" THEN index - 1 ELSE index + 1

\* moveHeader / moveStep on a cached record at a boundary of its group: the
\* handler returns before its first write.
MoveAtBoundary(e, kind, id, dir) ==
  /\ FreeEd(e)
  /\ IF kind = "header" THEN id \in domHeaders
                        ELSE \E d \in domSteps : d.id = id
  /\ LET hi == HeaderOfStep(id)
         group == IF kind = "header" THEN currentHeadersData
                  ELSE IF hi = 0 THEN <<>>
                  ELSE currentHeadersData[hi].steps
         index == FindIndex(group, id)
     IN  /\ index # 0
         /\ OtherIndex(dir, index, Len(group)) = 0
  /\ ed' = [ed EXCEPT ![e] = [IdleEd EXCEPT !.kind = kind, !.dir = dir,
                                            !.a = id, !.res = "boundary"]]
  /\ edits' = edits - 1
  /\ UNCHANGED <<shotVars, tutVars, setVars, now, faults, swVars, pageVars,
                 idbQueue, rt, pop, del>>

\* moveHeader / moveStep up to the first write: the record and its
\* neighbour are looked up in the cache; nothing happens when the record
\* is not cached.
MoveStart(e, kind, id, dir) ==
  /\ FreeEd(e)
  /\ IF kind = "header" THEN id \in domHeaders
                        ELSE \E d \in domSteps : d.id = id
  /\ LET hi == HeaderOfStep(id)
         group == IF kind = "header" THEN currentHeadersData
                  ELSE IF hi = 0 THEN <<>>
                  ELSE currentHeadersData[hi].steps
         index == FindIndex(group, id)
         otherIndex == OtherIndex(dir, index, Len(group))
     IN  /\ index # 0
         /\ otherIndex # 0
         /\ ed' = [ed EXCEPT ![e] = [IdleEd EXCEPT
                      !.pc = "w1", !.kind = kind, !.dir = dir,
                      !.a = id, !.b = group[otherIndex].id,
                      !.oa = group[index].order,
                      !.ob = group[otherIndex].order,
                      !.temp = 0 - now]]
         /\ idbQueue' = Enqueue(idbQueue, e,
                                IF kind = "header" THEN {STORE_HEADERS}
                                ELSE {STORE_TUTORIAL_STEPS}, "readwrite")
  /\ edits' = edits - 1
  /\ rt' = RtStart(kind, id, dir)
  /\ UNCHANGED <<shotVars, tutVars, setVars, now, faults, swVars, pageVars,
                 pop, del>>

MovePcs == {"w1", "w2", "w3", "rv1", "rv2"}

\* The record a write of the swap (or of its compensation) changes.
MoveTarget(r) == IF r.pc \in {"w1", "w3", "rv1"} THEN r.a ELSE r.b

\* The third write giving the moved record its own order back.
MoveValueOwn(r) ==
  IF r.pc = "w1" THEN r.temp ELSE r.oa

MoveValue(r) ==
  IF r.pc = "w1" THEN r.temp
  ELSE IF r.pc \in {"w2", "rv1"} THEN r.oa
  ELSE r.ob

\* One updateHeader / updateTutorialStep of the swap resolves or rejects.
\* After the third write the page is reloaded; a rejected write starts the
\* compensation, and the page is reloaded after it, however it ends.
MoveWrite(e) ==
  /\ ed[e].pc \in MovePcs
  /\ Runnable(e)
  /\ \E fail \in FaultChoice :
       LET r == ed[e]
           id == MoveTarget(r)
           store == IF r.kind = "header" THEN headers ELSE steps
           found == \E x \in store : x.id = id
           updated == [(CHOOSE x \in store : x.id = id) EXCEPT
                          !.order = MoveValue(r)]
           ok == /\ ~fail
                 /\ found
                 /\ r.kind = "step" => ~headerId_order(updated)
           scope == IF r.kind = "header" THEN {STORE_HEADERS}
                    ELSE {STORE_TUTORIAL_STEPS}
           q == Dequeue(e)
       IN  /\ Fault(fail)
           /\ IF ok /\ r.kind = "header"
              THEN headers' = updateHeader(id, MoveValue(r))
              ELSE headers' = headers
           /\ IF ok /\ r.kind = "step"
              THEN steps' = updateTutorialStep(id, updated)
              ELSE steps' = steps
           /\ IF ok /\ r.pc \in {"w1", "w2", "rv1"}
              THEN /\ ed' = [ed EXCEPT ![e] = [r EXCEPT !.pc =
                               IF r.pc = "w1" THEN "w2"
                               ELSE IF r.pc = "w2" THEN "w3" ELSE "rv2"]]
                   /\ idbQueue' = Enqueue(q, e, scope, "readwrite")
                   /\ UNCHANGED pageVars
              ELSE IF ~ok /\ r.pc \in {"w1", "w2", "w3"}
              THEN /\ ed' = [ed EXCEPT ![e] = [r EXCEPT !.pc = "rv1"]]
                   /\ idbQueue' = Enqueue(q, e, scope, "readwrite")
                   /\ UNCHANGED pageVars
              ELSE loadTutorialData(e,
                     [r EXCEPT !.res = IF r.pc = "w3" THEN "moved"
                                       ELSE "reverted"], q)
  /\ UNCHANGED <<shotVars, tutorials, nextTutorialId, nextHeaderId,
                 nextStepId, setVars, now, swVars, edits, rt, pop, del>>

\* The add-header button: the new header takes the length of the cache as
\* its order.
AddHeader(e) ==
  /\ FreeEd(e)
  /\ ed' = [ed EXCEPT ![e] = [IdleEd EXCEPT !.pc = "ah", !.kind = "addHeader",
                                 !.oa = Len(currentHeadersData)]]
  /\ idbQueue' = Enqueue(idbQueue, e, {STORE_HEADERS}, "readwrite")
  /\ edits' = edits - 1
  /\ rt' = RtStart("addHeader", Null, "")
  /\ UNCHANGED <<shotVars, tutVars, setVars, now, faults, swVars, pageVars,
                 pop, del>>

\* addHeader(headerData): the header store has no unique index.
addHeader(tutorialId, order) ==
  headers \cup {[id |-> nextHeaderId, tutorialId |-> tutorialId,
                 order |-> order]}

\* addHeader resolves (the header is cached and rendered) or rejects.
AddHeaderDone(e) ==
  /\ ed[e].pc = "ah"
  /\ Runnable(e)
  /\ idbQueue' = Dequeue(e)
  /\ \E fail \in FaultChoice :
       /\ Fault(fail)
       /\ IF fail
          THEN /\ ed' = [ed EXCEPT ![e] = EdFinished(@, "error")]
               /\ UNCHANGED <<headers, nextHeaderId, pageVars>>
          ELSE /\ headers' = addHeader(currentTutorialId, ed[e].oa)
               /\ nextHeaderId' = nextHeaderId + 1
               /\ currentHeadersData' = Append(currentHeadersData,
                    [id |-> nextHeaderId, tutorialId |-> currentTutorialId,
                     order |-> ed[e].oa, steps |-> <<>>])
               /\ domHeaders' = domHeaders \cup {nextHeaderId}
               /\ domSteps' = domSteps
               /\ ed' = [ed EXCEPT ![e] = EdFinished(@, "added")]
  /\ UNCHANGED <<shotVars, tutorials, nextTutorialId, steps, nextStepId,
                 setVars, now, swVars, edits, rt, pop, del>>

\* addNewStep(headerId) up to addTutorialStep: the new step takes the
\* number of cached steps of the header as its order.
AddNewStep(e, headerId) ==
  /\ FreeEd(e)
  /\ headerId \in domHeaders
  /\ LET headerIndex == FindIndex(currentHeadersData, headerId)
     IN  /\ headerIndex # 0
         /\ ed' = [ed EXCEPT ![e] = [IdleEd EXCEPT
                      !.pc = "as", !.kind = "addStep", !.a = headerId,
                      !.b = headerIndex,
                      !.oa = Len(currentHeadersData[headerIndex].steps)]]
  /\ idbQueue' = Enqueue(idbQueue, e, {STORE_TUTORIAL_STEPS}, "readwrite")
  /\ edits' = edits - 1
  /\ rt' = RtStart("addStep", Null, "")
  /\ UNCHANGED <<shotVars, tutVars, setVars, now, faults, swVars, pageVars,
                 pop, del>>

Step(id, headerId, screenshotId, order) ==
  [id |-> id, headerId |-> headerId, screenshotId |-> screenshotId,
   order |-> order]

\* addTutorialStep resolves or rejects (a failed request, or the unique
\* index).  The step is pushed onto the header object taken at the start,
\* which a reload has meanwhile replaced in the cache or not, and rendered
\* if the header's editor is on the page.
AddNewStepDone(e) ==
  /\ ed[e].pc = "as"
  /\ Runnable(e)
  /\ idbQueue' = Dequeue(e)
  /\ \E fail \in FaultChoice :
       LET r == ed[e]
           newStep == Step(nextStepId, r.a, Null, r.oa)
       IN  /\ Fault(fail)
           /\ IF fail \/ headerId_order(newStep)
              THEN /\ ed' = [ed EXCEPT ![e] = EdFinished(@, "error")]
                   /\ UNCHANGED <<steps, nextStepId, pageVars>>
              ELSE /\ steps' = steps \cup {newStep}
                   /\ nextStepId' = nextStepId + 1
                   /\ currentHeadersData' =
                        IF r.stale THEN currentHeadersData
                        ELSE [currentHeadersData EXCEPT
                                ![r.b].steps = Append(@, newStep)]
                   /\ domSteps' = IF r.a \in domHeaders
                                  THEN domSteps \cup {newStep} ELSE domSteps
                   /\ domHeaders' = domHeaders
                   /\ ed' = [ed EXCEPT ![e] = EdFinished(@,
                               IF r.a \in domHeaders THEN "added"
                               ELSE "error")]
  /\ UNCHANGED <<shotVars, tutorials, nextTutorialId, headers, nextHeaderId,
                 setVars, now, swVars, edits, rt, pop, del>>

\* The import-image button of a rendered step, after the file is chosen:
\* the file is stored as a new screenshot.
ImportImage(e, step, size) ==
  /\ FreeEd(e)
  /\ step \in domSteps
  /\ ed' = [ed EXCEPT ![e] = [IdleEd EXCEPT !.pc = "im_add",
                                 !.kind = "import", !.step = <<step>>,
                                 !.size = size]]
  /\ idbQueue' = Enqueue(idbQueue, e, {STORE_SCREENSHOTS}, "readwrite")
  /\ edits' = edits - 1
  /\ rt' = RtStart("import", Null, "")
  /\ UNCHANGED <<shotVars, tutVars, setVars, now, faults, swVars, pageVars,
                 pop, del>>

\* addScreenshot resolves (the step is then updated with the new id) or
\* rejects.  The record has no timestamp and no tutorialId.
ImportAdded(e) ==
  /\ ed[e].pc = "im_add"
  /\ Runnable(e)
  /\ \E fail \in FaultChoice :
       /\ Fault(fail)
       /\ IF fail
          THEN /\ UNCHANGED shotVars
               /\ ed' = [ed EXCEPT ![e] = EdFinished(@, "error")]
               /\ idbQueue' = Dequeue(e)
          ELSE /\ screenshots' = addScreenshot(Null, ed[e].size, Null)
               /\ nextScreenshotId' = nextScreenshotId + 1
               /\ ed' = [ed EXCEPT ![e] = [@ EXCEPT !.pc = "im_upd",
                                                    !.a = nextScreenshotId]]
               /\ idbQueue' = Enqueue(Dequeue(e), e, {STORE_TUTORIAL_STEPS},
                                      "readwrite")
  /\ UNCHANGED <<tutVars, setVars, now, swVars, pageVars, edits, rt, pop,
                 del>>

\* updateTutorialStep(step.id, {...step, screenshotId}) resolves (the page
\* is reloaded) or rejects.
ImportUpdated(e) ==
  /\ ed[e].pc = "im_upd"
  /\ Runnable(e)
  /\ \E fail \in FaultChoice :
       LET r == ed[e]
           updated == [r.step[1] EXCEPT !.screenshotId = r.a]
           ok == /\ ~fail
                 /\ \E st \in steps : st.id = updated.id
                 /\ ~headerId_order(updated)
       IN  /\ Fault(fail)
           /\ IF ok
              THEN /\ steps' = updateTutorialStep(updated.id, updated)
                   /\ loadTutorialData(e, [r EXCEPT !.res = "imported"],
                                       Dequeue(e))
              ELSE /\ steps' = steps
                   /\ ed' = [ed EXCEPT ![e] = EdFinished(@, "error")]
                   /\ idbQueue' = Dequeue(e)
                   /\ UNCHANGED pageVars
  /\ UNCHANGED <<shotVars, tutorials, nextTutorialId, headers, nextHeaderId,
                 nextStepId, setVars, now, swVars, edits, rt, pop, del>>

\* The save button of the image editor, opened for a rendered step that
\* has a screenshot: the step is looked up in the cache and its screenshot
\* is read.
ImageEditorSave(e, stepId, size) ==
  /\ FreeEd(e)
  /\ \E d \in domSteps : d.id = stepId /\ d.screenshotId # Null
  /\ LET hi == HeaderOfStep(stepId)
     IN  /\ hi # 0
         /\ LET stepToUpdateImageFor ==
                  currentHeadersData[hi].steps[
                     FindIndex(currentHeadersData[hi].steps, stepId)]
            IN  ed' = [ed EXCEPT ![e] = [IdleEd EXCEPT !.pc = "ie_get",
                          !.kind = "imageEdit", !.size = size,
                          !.a = stepToUpdateImageFor.screenshotId]]
  /\ idbQueue' = Enqueue(idbQueue, e, {STORE_SCREENSHOTS}, "readonly")
  /\ edits' = edits - 1
  /\ rt' = RtStart("imageEdit", Null, "")
  /\ UNCHANGED <<shotVars, tutVars, setVars, now, faults, swVars, pageVars,
                 pop, del>>

\* getScreenshotById resolves with the record or rejects.
ImageEditorGot(e) ==
  /\ ed[e].pc = "ie_get"
  /\ Runnable(e)
  /\ \E fail \in FaultChoice :
       /\ Fault(fail)
       /\ IF ~fail /\ \E sh \in screenshots : sh.id = ed[e].a
          THEN /\ ed' = [ed EXCEPT ![e] = [@ EXCEPT !.pc = "ie_put",
                           !.step = <<CHOOSE sh \in screenshots :
                                         sh.id = ed[e].a>>]]
               /\ idbQueue' = Enqueue(Dequeue(e), e, {STORE_SCREENSHOTS},
                                      "readwrite")
          ELSE /\ ed' = [ed EXCEPT ![e] = EdFinished(@, "error")]
               /\ idbQueue' = Dequeue(e)
  /\ UNCHANGED <<shotVars, tutVars, setVars, now, swVars, pageVars, edits,
                 rt, pop, del>>

\* A put of dataToUpdate alone: the fields it does not name are lost.
updateScreenshotPutOnly(screenshotId, dataToUpdate) ==
  {IF sh.id = screenshotId
   THEN [f \in DOMAIN sh |->
           IF f = "id" THEN screenshotId
           ELSE IF f \in DOMAIN dataToUpdate THEN dataToUpdate[f]
           ELSE Null]
   ELSE sh : sh \in screenshots}

\* updateScreenshot(id, dataToUpdate): the stored record overlaid with the
\* fields of dataToUpdate, its id kept.
updateScreenshot(screenshotId, dataToUpdate) ==
  {IF sh.id = screenshotId
   THEN [f \in DOMAIN sh |->
           IF f = "id" THEN screenshotId
           ELSE IF f \in DOMAIN dataToUpdate THEN dataToUpdate[f]
           ELSE sh[f]]
   ELSE sh : sh \in screenshots}

\* updateScreenshot, called with the record read before and the size of
\* the edited image, resolves or rejects.
ImageEditorPut(e) ==
  /\ ed[e].pc = "ie_put"
  /\ Runnable(e)
  /\ idbQueue' = Dequeue(e)
  /\ \E fail \in FaultChoice :
       /\ Fault(fail)
       /\ IF ~fail /\ \E sh \in screenshots : sh.id = ed[e].a
          THEN /\ screenshots' = updateScreenshot(ed[e].a,
                    [ed[e].step[1] EXCEPT !.imageSizeBytes = ed[e].size])
               /\ ed' = [ed EXCEPT ![e] = EdFinished(@, "saved")]
          ELSE /\ screenshots' = screenshots
               /\ ed' = [ed EXCEPT ![e] = EdFinished(@, "error")]
  /\ UNCHANGED <<nextScreenshotId, tutVars, setVars, now, swVars, pageVars,
                 edits, rt, pop, del>>

\* ------------------------------------------------------------------ popup
IdlePop == [pc |-> "idle", n |-> 0, list |-> <<>>, tut |-> Null,
            hdr |-> Null, order |-> 0, cover |-> Null, res |-> "none"]

PopFinished(res) == [IdlePop EXCEPT !.n = pop.n, !.res = res]

\* The ids of S in ascending order, as getAll returns the records.
RECURSIVE ById(_)
ById(S) ==
  IF S = {} THEN <<>>
  ELSE LET m == CHOOSE x \in S : \A y \in S : x <= y
       IN  <<m>> \o ById(S \ {m})

getUnassignedScreenshots ==
  ById({sh.id : sh \in {x \in screenshots : x.tutorialId = Null}})

\* assignScreenshotToTutorial with put storing a record whether or not one
\* was read.
assignOrCreate(screenshotId, tutorialId) ==
  [screenshots |->
     {sh \in screenshots : sh.id # screenshotId} \cup
     {[id |-> screenshotId, timestamp |-> Null, imageSizeBytes |-> 0,
       tutorialId |-> tutorialId]},
   ok |-> TRUE]

\* The transaction of assignScreenshotToTutorial(screenshotId, tutorialId):
\* the record is read, its tutorialId is set and it is put back; ok is
\* FALSE, and nothing is written, when there is no such record.
assignScreenshotToTutorial(screenshotId, tutorialId) ==
  IF \E sh \in screenshots : sh.id = screenshotId
  THEN [screenshots |-> {IF sh.id = screenshotId
                         THEN [sh EXCEPT !.tutorialId = tutorialId]
                         ELSE sh : sh \in screenshots},
        ok |-> TRUE]
  ELSE [screenshots |-> screenshots, ok |-> FALSE]

\* The create-tutorial button, after the title prompt.
CreateTutorial ==
  /\ pop.pc = "idle"
  /\ pop.n > 0
  /\ pop' = [IdlePop EXCEPT !.pc = "ct_unassigned", !.n = pop.n - 1]
  /\ idbQueue' = Enqueue(idbQueue, "pop", {STORE_SCREENSHOTS}, "readonly")
  /\ rt' = RtStart("createTutorial", Null, "")
  /\ UNCHANGED <<shotVars, tutVars, setVars, now, faults, swVars, pageVars,
                 ed, edits, del>>

\* The next storage request of the handler, by the place it has reached.
PopScope(pc) ==
  IF pc \in {"ct_update", "ct_addTut"} THEN {STORE_TUTORIALS}
  ELSE IF pc \in {"ct_nextH", "ct_addH"} THEN {STORE_HEADERS}
  ELSE IF pc \in {"ct_nextS", "ct_addS"} THEN {STORE_TUTORIAL_STEPS}
  ELSE {STORE_SCREENSHOTS}

PopMode(pc) ==
  IF pc \in {"ct_unassigned", "ct_nextH", "ct_nextS"} THEN "readonly"
  ELSE "readwrite"

PopGoto(r, pc) ==
  /\ pop' = [r EXCEPT !.pc = pc]
  /\ idbQueue' = Enqueue(Dequeue("pop"), "pop", PopScope(pc), PopMode(pc))

PopEnd(res) ==
  /\ pop' = PopFinished(res)
  /\ idbQueue' = Dequeue("pop")

NextOrder(list) ==
  IF Len(list) > 0
  THEN LET m == CHOOSE i \in 1..Len(list) :
                  \A j \in 1..Len(list) : list[j].order <= list[i].order
       IN  list[m].order + 1
  ELSE 0

getNextHeaderOrder(tutorialId) == NextOrder(getHeadersForTutorial(tutorialId))

getNextStepOrder(headerId) == NextOrder(getStepsForHeader(headerId))

\* One storage request of the create-tutorial handler resolves or rejects.
CreateTutorialStep ==
  /\ pop.pc # "idle"
  /\ pop.pc # "ds_delete" /\ pop.pc # "ds_steps"
  /\ Runnable("pop")
  /\ \E fail \in FaultChoice :
       /\ Fault(fail)
       /\ IF fail THEN PopEnd("error") /\ UNCHANGED <<shotVars, tutVars>>
          ELSE IF pop.pc = "ct_unassigned"
          THEN /\ IF Len(getUnassignedScreenshots) = 0
                  THEN PopEnd("none")
                  ELSE PopGoto([pop EXCEPT !.list = getUnassignedScreenshots],
                               "ct_addTut")
               /\ UNCHANGED <<shotVars, tutVars>>
          ELSE IF pop.pc = "ct_addTut"
          THEN /\ tutorials' = tutorials \cup
                     {[id |-> nextTutorialId, coverImageId |-> Null]}
               /\ nextTutorialId' = nextTutorialId + 1
               /\ PopGoto([pop EXCEPT !.tut = nextTutorialId], "ct_nextH")
               /\ UNCHANGED <<shotVars, headers, nextHeaderId, steps,
                              nextStepId>>
          ELSE IF pop.pc = "ct_nextH"
          THEN /\ PopGoto([pop EXCEPT !.order = getNextHeaderOrder(pop.tut)],
                          "ct_addH")
               /\ UNCHANGED <<shotVars, tutVars>>
          ELSE IF pop.pc = "ct_addH"
          THEN /\ headers' = addHeader(pop.tut, pop.order)
               /\ nextHeaderId' = nextHeaderId + 1
               /\ PopGoto([pop EXCEPT !.hdr = nextHeaderId], "ct_assign")
               /\ UNCHANGED <<shotVars, tutorials, nextTutorialId, steps,
                              nextStepId>>
          ELSE IF pop.pc = "ct_assign"
          THEN /\ LET result == assignScreenshotToTutorial(Head(pop.list),
                                                            pop.tut)
                  IN  /\ screenshots' = result.screenshots
                      /\ IF result.ok THEN PopGoto(pop, "ct_nextS")
                                      ELSE PopEnd("error")
               /\ UNCHANGED <<nextScreenshotId, tutVars>>
          ELSE IF pop.pc = "ct_nextS"
          THEN /\ PopGoto([pop EXCEPT !.order = getNextStepOrder(pop.hdr)],
                          "ct_addS")
               /\ UNCHANGED <<shotVars, tutVars>>
          ELSE IF pop.pc = "ct_addS"
          THEN LET newStep == Step(nextStepId, pop.hdr, Head(pop.list),
                                   pop.order)
                   r == [pop EXCEPT !.list = Tail(@),
                           !.cover = IF @ = Null THEN Head(pop.list) ELSE @]
               IN  /\ IF headerId_order(newStep)
                      THEN /\ PopEnd("error")
                           /\ UNCHANGED <<steps, nextStepId>>
                      ELSE /\ steps' = steps \cup {newStep}
                           /\ nextStepId' = nextStepId + 1
                           /\ PopGoto(r, IF Len(r.list) > 0 THEN "ct_assign"
                                         ELSE "ct_update")
                   /\ UNCHANGED <<shotVars, tutorials, nextTutorialId,
                                  headers, nextHeaderId>>
          ELSE /\ IF \E t \in tutorials : t.id = pop.tut
                  THEN /\ tutorials' =
                            {IF t.id = pop.tut
                             THEN [t EXCEPT !.coverImageId = pop.cover]
                             ELSE t : t \in tutorials}
                       /\ PopEnd("created")
                  ELSE /\ tutorials' = tutorials
                       /\ PopEnd("error")
               /\ UNCHANGED <<shotVars, nextTutorialId, headers,
                              nextHeaderId, steps, nextStepId>>
  /\ UNCHANGED <<setVars, now, swVars, edVars, del>>

\* The delete button of a screenshot in the popup: deleteScreenshot(id) up
\* to the deletion of the record.
PopupDeleteScreenshot(id) ==
  /\ pop.pc = "idle"
  /\ pop.n > 0
  /\ \E sh \in screenshots : sh.id = id
  /\ pop' = [IdlePop EXCEPT !.pc = "ds_delete", !.n = pop.n - 1, !.tut = id]
  /\ idbQueue' = Enqueue(idbQueue, "pop", {STORE_SCREENSHOTS}, "readwrite")
  /\ rt' = RtStart("deleteScreenshot", Null, "")
  /\ UNCHANGED <<shotVars, tutVars, setVars, now, faults, swVars, pageVars,
                 ed, edits, del>>

\* idbHelper.deleteScreenshot(id) resolves (the steps that show the
\* screenshot are deleted next) or rejects.
PopupDeleted ==
  /\ pop.pc = "ds_delete"
  /\ Runnable("pop")
  /\ \E fail \in FaultChoice :
       /\ Fault(fail)
       /\ IF fail
          THEN /\ screenshots' = screenshots
               /\ PopEnd("error")
          ELSE /\ screenshots' = deleteScreenshots({pop.tut})
               /\ pop' = [pop EXCEPT !.pc = "ds_steps"]
               /\ idbQueue' = Enqueue(Dequeue("pop"), "pop",
                                      {STORE_TUTORIAL_STEPS}, "readwrite")
  /\ UNCHANGED <<nextScreenshotId, tutVars, setVars, now, swVars, edVars,
                 del>>

\* No step is deleted.
deleteNoTutorialSteps(screenshotId) == steps

\* The steps left by deleteTutorialStepsByScreenshotId: a cursor over the
\* screenshotId index deletes every step it finds.
deleteTutorialStepsByScreenshotId(screenshotId) ==
  {st \in steps : st.screenshotId # screenshotId}

\* deleteTutorialStepsByScreenshotId(id) resolves (STORAGE_UPDATED is sent)
\* or rejects.
PopupDeletedSteps ==
  /\ pop.pc = "ds_steps"
  /\ Runnable("pop")
  /\ \E fail \in FaultChoice :
       /\ Fault(fail)
       /\ IF fail
          THEN /\ steps' = steps
               /\ PopEnd("error")
          ELSE /\ steps' = deleteTutorialStepsByScreenshotId(pop.tut)
               /\ PopEnd("deleted")
  /\ UNCHANGED <<shotVars, tutorials, nextTutorialId, headers, nextHeaderId,
                 nextStepId, setVars, now, swVars, edVars, del>>

\* -------------------------------------------------------- deleteTutorial
IdleDel == [pc |-> "idle", n |-> 0, tid |-> Null, list |-> <<>>,
            pre |-> {}, hid |-> Null, hn |-> 0, hres |-> "none",
            res |-> "none"]

DelFinished(r, res) ==
  [IdleDel EXCEPT !.n = r.n, !.tid = r.tid, !.pre = r.pre, !.hid = r.hid,
                  !.hn = r.hn, !.hres = r.hres, !.res = res]

getAllScreenshotsForTutorial(tutorialId) ==
  {sh \in screenshots : sh.tutorialId = tutorialId}

\* The delete button of a tutorial (tutorials page, edit page), confirmed:
\* deleteTutorial up to getHeadersForTutorial.
DeleteTutorial(tutorialId) ==
  /\ del.pc = "idle"
  /\ del.n > 0
  /\ \E t \in tutorials : t.id = tutorialId
  /\ del' = [IdleDel EXCEPT !.pc = "dt_headers", !.n = del.n - 1,
               !.tid = tutorialId,
               !.pre = {sh.id : sh \in getAllScreenshotsForTutorial(tutorialId)}]
  /\ idbQueue' = Enqueue(idbQueue, "del", {STORE_HEADERS}, "readonly")
  /\ rt' = RtStart("deleteTutorial", Null, "")
  /\ UNCHANGED <<shotVars, tutVars, setVars, now, faults, swVars, pageVars,
                 ed, edits, pop>>

\* After the headers: getAllScreenshotsForTutorial.
DelToScreenshots(r) ==
  /\ del' = [r EXCEPT !.pc = "dt_shots", !.list = <<>>]
  /\ idbQueue' = Enqueue(Dequeue("del"), "del", {STORE_SCREENSHOTS},
                         "readonly")

\* getHeadersForTutorial resolves or rejects.
DelGotHeaders ==
  /\ del.pc = "dt_headers"
  /\ Runnable("del")
  /\ \E fail \in FaultChoice :
       /\ Fault(fail)
       /\ IF fail
          THEN /\ del' = DelFinished(del, "rejected")
               /\ idbQueue' = Dequeue("del")
          ELSE LET hs == getHeadersForTutorial(del.tid)
               IN  IF Len(hs) > 0
                   THEN /\ del' = [del EXCEPT !.pc = "dt_header",
                                     !.list = [i \in 1..Len(hs) |-> hs[i].id]]
                        /\ idbQueue' = Enqueue(Dequeue("del"), "del",
                               {STORE_HEADERS, STORE_TUTORIAL_STEPS},
                               "readwrite")
                   ELSE DelToScreenshots(del)
  /\ UNCHANGED <<shotVars, tutVars, setVars, now, swVars, edVars, pop>>

\* deleteHeader deleting the header record only.
deleteHeaderOnly(headerId, failed) ==
  IF failed = 0
  THEN [headers |-> {h \in headers : h.id # headerId}, steps |-> steps,
        ok |-> TRUE]
  ELSE [headers |-> headers, steps |-> steps, ok |-> FALSE]

\* deleteHeader with each deletion in a transaction of its own: what was
\* deleted before the failing request stays deleted.
deleteHeaderNoAbort(headerId, failed) ==
  LET own == getStepsForHeader(headerId)
      done == {own[i].id : i \in 1..Len(own)} \cap
              {own[i].id : i \in 1..(failed - 1)}
  IN  IF failed = 0
      THEN [headers |-> {h \in headers : h.id # headerId},
            steps |-> {st \in steps : st.headerId # headerId}, ok |-> TRUE]
      ELSE [headers |-> headers,
            steps |-> {st \in steps : st.id \notin done}, ok |-> FALSE]

\* The transaction of deleteHeader(headerId).  Its requests are the
\* deletion of each step of the header, in the order of the headerId index,
\* and then the deletion of the header; failed = 0 when every request
\* succeeds, and otherwise the number of the request that fails.  A failed
\* request is not handled, so the transaction aborts: nothing it did stays.
deleteHeader(headerId, failed) ==
  IF failed = 0
  THEN [headers |-> {h \in headers : h.id # headerId},
        steps |-> {st \in steps : st.headerId # headerId},
        ok |-> TRUE]
  ELSE [headers |-> headers, steps |-> steps, ok |-> FALSE]

\* deleteHeader(header.id) resolves (the next header, or the screenshots of
\* the tutorial, follow) or rejects (deleteTutorial rethrows).
DeleteHeader ==
  /\ del.pc = "dt_header"
  /\ Runnable("del")
  /\ LET headerId == Head(del.list)
         n == Cardinality({st \in steps : st.headerId = headerId})
     IN  \E fail \in FaultChoice :
         \E failed \in IF fail THEN 1..(n + 1) ELSE {0} :
            LET result == deleteHeader(headerId, failed)
                r == [del EXCEPT !.list = Tail(@), !.hid = headerId,
                        !.hn = n,
                        !.hres = IF result.ok THEN "ok" ELSE "rejected"]
            IN  /\ Fault(fail)
                /\ headers' = result.headers
                /\ steps' = result.steps
                /\ IF ~result.ok
                   THEN /\ del' = DelFinished(r, "rejected")
                        /\ idbQueue' = Dequeue("del")
                   ELSE IF Len(r.list) > 0
                   THEN /\ del' = r
                        /\ idbQueue' = Enqueue(Dequeue("del"), "del",
                               {STORE_HEADERS, STORE_TUTORIAL_STEPS},
                               "readwrite")
                   ELSE DelToScreenshots(r)
  /\ UNCHANGED <<shotVars, tutorials, nextTutorialId, nextHeaderId,
                 nextStepId, setVars, now, swVars, edVars, pop>>

\* deleteTutorial without the unassignment of the screenshots.
unassignNothing(ids, failed) == screenshots

\* unassignScreenshot(id) for each id of ids, one transaction each, created
\* together; failed = Null when all succeed, otherwise the id whose
\* transaction fails.  A screenshot that is no longer stored is skipped.
unassignScreenshots(ids, failed) ==
  {IF sh.id \in ids /\ sh.id # failed THEN [sh EXCEPT !.tutorialId = Null]
   ELSE sh : sh \in screenshots}

\* getAllScreenshotsForTutorial resolves or rejects; the transactions that
\* unassign the screenshots are created.
DelGotScreenshots ==
  /\ del.pc = "dt_shots"
  /\ Runnable("del")
  /\ \E fail \in FaultChoice :
       /\ Fault(fail)
       /\ IF fail
          THEN /\ del' = DelFinished(del, "rejected")
               /\ idbQueue' = Dequeue("del")
          ELSE LET ids == {sh.id : sh \in getAllScreenshotsForTutorial(del.tid)}
               IN  IF ids # {}
                   THEN /\ del' = [del EXCEPT !.pc = "dt_unassign",
                                              !.list = ById(ids)]
                        /\ idbQueue' = Enqueue(Dequeue("del"), "del",
                               {STORE_SCREENSHOTS}, "readwrite")
                   ELSE /\ del' = [del EXCEPT !.pc = "dt_tutorial"]
                        /\ idbQueue' = Enqueue(Dequeue("del"), "del",
                               {STORE_TUTORIALS}, "readwrite")
  /\ UNCHANGED <<shotVars, tutVars, setVars, now, swVars, edVars, pop>>

\* The unassigning transactions run; Promise.all resolves (the tutorial
\* record is deleted next) or rejects.
DelUnassigned ==
  /\ del.pc = "dt_unassign"
  /\ Runnable("del")
  /\ LET ids == {del.list[i] : i \in 1..Len(del.list)}
     IN  \E fail \in FaultChoice :
         \E failed \in IF fail THEN ids ELSE {Null} :
            /\ Fault(fail)
            /\ screenshots' = unassignScreenshots(ids, failed)
            /\ IF fail
               THEN /\ del' = DelFinished(del, "rejected")
                    /\ idbQueue' = Dequeue("del")
               ELSE /\ del' = [del EXCEPT !.pc = "dt_tutorial",
                                          !.list = <<>>]
                    /\ idbQueue' = Enqueue(Dequeue("del"), "del",
                           {STORE_TUTORIALS}, "readwrite")
  /\ UNCHANGED <<nextScreenshotId, tutVars, setVars, now, swVars, edVars,
                 pop>>

\* The deletion of the tutorial record resolves or rejects.
DelTutorialRecord ==
  /\ del.pc = "dt_tutorial"
  /\ Runnable("del")
  /\ idbQueue' = Dequeue("del")
  /\ \E fail \in FaultChoice :
       /\ Fault(fail)
       /\ IF fail
          THEN /\ tutorials' = tutorials
               /\ del' = DelFinished(del, "rejected")
          ELSE /\ tutorials' = {t \in tutorials : t.id # del.tid}
               /\ del' = DelFinished(del, "deleted")
  /\ UNCHANGED <<shotVars, nextTutorialId, headers, nextHeaderId, steps,
                 nextStepId, setVars, now, swVars, edVars, pop>>

\* ------------------------------------------------------------ initial state
Shot(id, ts, size, tut) ==
  [id |-> id, timestamp |-> ts, imageSizeBytes |-> size, tutorialId |-> tut]

\* The service worker at rest; the user will click nClicks times.
\* ------------------------------------------------------- schema and handle
Callers == {"p1", "p2"}

STORES == {STORE_SCREENSHOTS, STORE_TUTORIALS, STORE_HEADERS,
           STORE_TUTORIAL_STEPS}

NoSchema == [stores |-> {}, idx |-> [s \in STORES |-> {}]]

\* No index is treated as old.
OldStepIndexesNone == {}

\* The tutorialId index is treated as old too.
OldStepIndexesMore == {"tutorialId_order", "tutorialId"}

\* The index of tutorialSteps that the upgrade deletes when it finds it.
OldStepIndexes == {"tutorialId_order"}

\* The indexes of tutorialSteps that the upgrade creates when missing.
NewStepIndexes == {"headerId", "headerId_order"}

\* The indexes a store gets when the upgrade creates it.
CreatedIndexes(store) ==
  IF store = STORE_SCREENSHOTS THEN {"timestamp", "pageUrl"}
  ELSE IF store = STORE_TUTORIALS THEN {"title", "createdAt"}
  ELSE IF store = STORE_HEADERS THEN {"tutorialId", "order", "tutorialId_order"}
  ELSE {"screenshotId", "tutorialId"}

\* The upgrade handler of initDB applied to the on-disk schema s.
onupgradeneeded(s) ==
  LET Had(store) == IF store \in s.stores THEN s.idx[store]
                    ELSE CreatedIndexes(store)
  IN  [stores |-> STORES,
       idx |-> [store \in STORES |->
                  IF store = STORE_SCREENSHOTS
                  THEN Had(store) \cup {"tutorialId"}
                  ELSE IF store = STORE_TUTORIAL_STEPS
                  THEN ((IF store \in s.stores
                         THEN s.idx[store] \ OldStepIndexes
                         ELSE CreatedIndexes(store)) \cup NewStepIndexes)
                  ELSE Had(store)]]

IdleConn == [pc |-> "idle", handle |-> Null]

\* A database that is at the current version and not yet opened.
InitDb ==
  /\ schema = onupgradeneeded(NoSchema)
  /\ prior = schema
  /\ dbVersion = DB_VERSION
  /\ db = Null
  /\ opened = 0
  /\ openRequests = <<>>
  /\ conn = [p \in Callers |-> IdleConn]

\* A content script as it is once its initial settings are loaded.
IdleCs == [captureEnabled |-> TRUE, lastClickTime |-> 0, timers |-> 0]

InitBurst ==
  /\ received = <<>>
  /\ calls = <<>>
  /\ timers = {}
  /\ timerOf = [t \in Tabs |-> Null]
  /\ fired = <<>>

InitSw(nClicks) ==
  /\ InitDb
  /\ InitBurst
  /\ captureEnabled = TRUE
  /\ cs = [t \in Tabs |-> IdleCs]
  /\ runtimeMessages = <<>>
  /\ stepCounter = 0
  /\ debouncedCaptures = [t \in Tabs |-> FALSE]
  /\ clicks = nClicks
  /\ sw = [p \in SwProcs |-> IdleSw]
  /\ idbQueue = <<>>

\* The cache of the edit page once the tutorial is loaded.
CacheOf(tutorialId) ==
  LET hs == getHeadersForTutorial(tutorialId)
  IN  [i \in 1..Len(hs) |->
         [id |-> hs[i].id, tutorialId |-> hs[i].tutorialId,
          order |-> hs[i].order, steps |-> getStepsForHeader(hs[i].id)]]

\* The pages at rest, the edit page loaded; the user will start nEdits
\* handlers of the edit page, nPopups of the popup and nDeletes deletions.
InitUi(nEdits, nPopups, nDeletes) ==
  /\ currentHeadersData = CacheOf(currentTutorialId)
  /\ domHeaders = {currentHeadersData[i].id : i \in 1..Len(currentHeadersData)}
  /\ domSteps = RenderedSteps(currentHeadersData)
  /\ ed = [e \in EdOps |-> IdleEd]
  /\ edits = nEdits
  /\ pop = [IdlePop EXCEPT !.n = nPopups]
  /\ del = [IdleDel EXCEPT !.n = nDeletes]
  /\ rt = Rt0

\* A tutorial as the popup creates it and the edit page extends it: nh
\* headers with orders 0..nh-1, the first with ns steps of orders 0..ns-1;
\* the first step shows the screenshot shot.
InitTutorial(nh, ns, shot) ==
  /\ tutorials = {[id |-> currentTutorialId, coverImageId |-> Null]}
  /\ headers = {[id |-> i, tutorialId |-> currentTutorialId, order |-> i - 1] :
                  i \in 1..nh}
  /\ steps = {Step(i, 1, IF i = 1 THEN shot ELSE Null, i - 1) : i \in 1..ns}
  /\ nextTutorialId = 2
  /\ nextHeaderId = nh + 1
  /\ nextStepId = ns + 1

\* ---- the service worker alone: captures from two tabs and the cleanup
InitQuota ==
  /\ screenshots \in {{}, {Shot(1, 1, 409600, Null)},
                       {Shot(1, 1, 409600, currentTutorialId)}}
  /\ nextScreenshotId = 2
  /\ InitTutorial(0, 0, Null)
  /\ now = 1
  /\ storageQuotaMB \in QuotaChoices
  /\ retentionDays \in RetentionChoices
  /\ faults = MaxFaults
  /\ InitSw(MaxClicks)
  /\ InitUi(0, 0, 0)

NextSw ==
  \/ \E t \in Tabs : CaptureClick(t)
  \/ \E t \in Tabs, c \in Chains : TimerFires(t, c)
  \/ \E c \in Chains : CaptureSettings(c)
  \/ \E c \in Chains : CaptureVisibleTab(c)
  \/ \E c \in Chains : CaptureThumbnail(c)
  \/ \E c \in Chains : CaptureGotCounter(c)
  \/ \E c \in Chains : CaptureSetCounter(c)
  \/ \E c \in Chains : CaptureAdded(c)
  \/ \E p \in SwProcs : EnforceGotTotal(p)
  \/ \E p \in SwProcs : EnforceGotOldest(p)
  \/ \E p \in SwProcs : EnforceDeleted(p)
  \/ CleanupAlarm
  \/ CleanupSettings
  \/ CleanupGotOlder
  \/ CleanupDeleted
  \/ Tick

SpecQuota == InitQuota /\ [][NextSw]_vars

\* ---- every writer of the screenshot store: a capture, the cleanup, the
\* ---- import and the image editor of the edit page, the popup's deletion
InitStore ==
  /\ screenshots = {Shot(1, 1, 409600, currentTutorialId)}
  /\ nextScreenshotId = 2
  /\ InitTutorial(1, 1, 1)
  /\ now = 1
  /\ storageQuotaMB = 1
  /\ retentionDays \in RetentionChoices
  /\ faults = MaxFaults
  /\ InitSw(MaxStoreOps)
  /\ InitUi(MaxStoreOps, MaxStoreOps, 0)

NextStore ==
  \/ NextSw
  \/ \E e \in EdOps, step \in domSteps, size \in ImageSizes :
        ImportImage(e, step, size)
  \/ \E e \in EdOps : ImportAdded(e)
  \/ \E e \in EdOps : ImportUpdated(e)
  \/ \E e \in EdOps, step \in domSteps, size \in ImageSizes :
        ImageEditorSave(e, step.id, size)
  \/ \E e \in EdOps : ImageEditorGot(e)
  \/ \E e \in EdOps : ImageEditorPut(e)
  \/ \E e \in EdOps : LoadGotTutorial(e)
  \/ \E e \in EdOps : LoadGotHeaders(e)
  \/ \E e \in EdOps : LoadGotSteps(e)
  \/ \E sh \in screenshots : PopupDeleteScreenshot(sh.id)
  \/ PopupDeleted
  \/ PopupDeletedSteps

SpecStore == InitStore /\ [][NextStore]_vars

\* ---- the edit page with two handlers in flight
InitOrder ==
  /\ screenshots = {Shot(1, 1, 409600, Null)}
  /\ nextScreenshotId = 2
  /\ InitTutorial(3, 2, Null)
  /\ now = 1
  /\ storageQuotaMB = 1
  /\ retentionDays = 1
  /\ faults \in {0, MaxFaults}
  /\ InitSw(0)
  /\ InitUi(MaxEdits, 0, 0)

NextEdit ==
  \/ \E e \in EdOps, kind \in {"header", "step"}, id \in 1..3,
        dir \in {"up", "down"} : MoveStart(e, kind, id, dir)
  \/ \E e \in EdOps : MoveWrite(e)
  \/ \E e \in EdOps : AddHeader(e)
  \/ \E e \in EdOps : AddHeaderDone(e)
  \/ \E e \in EdOps, h \in domHeaders : AddNewStep(e, h)
  \/ \E e \in EdOps : AddNewStepDone(e)
  \/ \E e \in EdOps : LoadGotTutorial(e)
  \/ \E e \in EdOps : LoadGotHeaders(e)
  \/ \E e \in EdOps : LoadGotSteps(e)
  \/ Tick

SpecOrder == InitOrder /\ [][NextEdit]_vars

\* ---- the edit page, one handler at a time: moves of headers and steps.
\* ---- The page is opened on the tutorial as created, or as two moveHeader
\* ---- calls in flight (header 2 up, header 2 down) can leave it.
RacedHeaders ==
  {[id |-> 1, tutorialId |-> currentTutorialId, order |-> 1],
   [id |-> 3, tutorialId |-> currentTutorialId, order |-> 1],
   [id |-> 2, tutorialId |-> currentTutorialId, order |-> 2]}

InitRoundTrip ==
  /\ screenshots = {}
  /\ nextScreenshotId = 1
  /\ tutorials = {[id |-> currentTutorialId, coverImageId |-> Null]}
  /\ headers \in {{[id |-> i, tutorialId |-> currentTutorialId,
                    order |-> i - 1] : i \in 1..nh} : nh \in 2..3}
                 \cup {RacedHeaders}
  /\ \E ns \in 2..3 : steps = {Step(i, 1, Null, i - 1) : i \in 1..ns}
  /\ nextTutorialId = 2
  /\ nextHeaderId = 4
  /\ nextStepId = 4
  /\ now = 1
  /\ storageQuotaMB = 1
  /\ retentionDays = 1
  /\ faults \in {0, MaxFaults}
  /\ InitSw(0)
  /\ InitUi(MaxEdits, 0, 0)

NextRoundTrip ==
  \/ \E kind \in {"header", "step"}, id \in 1..3, dir \in {"up", "down"} :
        MoveStart("e1", kind, id, dir)
  \/ \E kind \in {"header", "step"}, id \in 1..3, dir \in {"up", "down"} :
        MoveAtBoundary("e1", kind, id, dir)
  \/ MoveWrite("e1")
  \/ LoadGotTutorial("e1")
  \/ LoadGotHeaders("e1")
  \/ LoadGotSteps("e1")
  \/ Tick

SpecRoundTrip == InitRoundTrip /\ [][NextRoundTrip]_vars

\* ---- deleteTutorial, with storage failures, beside the popup
InitCascade ==
  /\ screenshots \in {{Shot(1, 1, 409600, t1), Shot(2, 1, 409600, t2)} :
                        t1 \in {Null, 1}, t2 \in {Null, 1}}
  /\ nextScreenshotId = 3
  /\ \E nh \in 0..2, ns \in 0..2 : InitTutorial(nh, ns, Null)
  /\ now = 1
  /\ storageQuotaMB = 1
  /\ retentionDays = 1
  /\ faults \in {0, MaxFaults}
  /\ InitSw(0)
  /\ InitUi(0, MaxPopups, MaxDeletes)

NextCascade ==
  \/ \E t \in tutorials : DeleteTutorial(t.id)
  \/ DelGotHeaders
  \/ DeleteHeader
  \/ DelGotScreenshots
  \/ DelUnassigned
  \/ DelTutorialRecord
  \/ CreateTutorial
  \/ CreateTutorialStep

SpecCascade == InitCascade /\ [][NextCascade]_vars


\* ================================================================== claims
StoredIds == {sh.id : sh \in screenshots}

\* C1: whenever a positive quota is configured, the sizes of the stored
\* screenshots add up to at most quotaMB * 1 MiB (SpecStore: a capture, the
\* cleanup, an import, an image edit and a deletion interleaved, from a
\* store within the quota).
C1_TotalWithinQuota ==
  storageQuotaMB > 0 => getTotalStorageUsed <= maxSizeBytes(storageQuotaMB)

\* C2: when enforceStorageQuota(size, quotaMB) with quotaMB > 0 returns
\* true, the store holds at that moment at most quotaMB * 1 MiB - size.
C2_TrueMeansRoom ==
  [][\A p \in SwProcs :
       (/\ sw[p].pc \in EnforcePcs
        /\ sw'[p].pc \notin EnforcePcs
        /\ sw'[p].res = "true")
       => SumSizes(screenshots') + sw'[p].size <= maxSizeBytes(sw'[p].quota)]_vars

\* C3: a quota check for an image larger than the whole quota returns false
\* in the step in which it learns the total, and that step leaves the
\* screenshot store as it was.
C3_OversizeRefused ==
  [][\A p \in SwProcs :
       (/\ sw[p].pc \in EnforcePcs
        /\ sw[p].quota > 0
        /\ sw[p].size > maxSizeBytes(sw[p].quota)
        /\ sw'[p] # sw[p])
       => /\ sw[p].pc = "getTotal"
          /\ sw'[p].pc \notin EnforcePcs
          /\ sw'[p].res = "false"
          /\ screenshots' = screenshots]_vars

C3_Witness ==
  \E p \in Chains : /\ sw[p].res = "false"
                    /\ sw[p].badge = "FULL"
                    /\ sw[p].quota > 0
                    /\ sw[p].size > maxSizeBytes(sw[p].quota)
                    /\ screenshots # {}

\* C4: a screenshot that enforceStorageQuota deletes has, when it is
\* deleted, a timestamp that no stored screenshot undercuts, assigned to a
\* tutorial or not.
C4_OldestFirst ==
  [][\A p \in SwProcs :
       (sw[p].pc = "delete" /\ sw'[p] # sw[p])
       => \A gone \in screenshots \ screenshots' :
            \A sh \in InTimestampIndex(screenshots) :
               gone.timestamp <= sh.timestamp]_vars

C4_Witness ==
  \E p \in SwProcs : /\ sw[p].made
                     /\ sw[p].pc # "delete"
                     /\ sw[p].item # <<>>
                     /\ sw[p].item[1].tutorialId # Null
                     /\ sw[p].item[1].id \notin StoredIds
                     /\ screenshots # {}

\* C5: two distinct headers of one tutorial never have the same order.
C5_HeaderOrdersDistinct ==
  \A h1 \in headers : \A h2 \in headers :
     (h1.id # h2.id /\ h1.tutorialId = h2.tutorialId) => h1.order # h2.order

\* C6: two distinct steps of one header never have the same order; the
\* write that would make them equal is rejected.
C6_StepOrdersDistinct ==
  \A s1 \in steps : \A s2 \in steps :
     (s1.id # s2.id /\ s1.headerId = s2.headerId) => s1.order # s2.order

C6_Witness ==
  /\ \E e \in EdOps : ed[e].kind = "addStep" /\ ed[e].res = "error"
  /\ \E e \in EdOps : ed[e].kind = "addStep" /\ ed[e].res = "added"
  /\ faults = 0

\* C7: a move up followed by a move down of the same record, both
\* succeeding and nothing else running, leaves every record of the group
\* with the order it had before.
C7_RoundTrip ==
  rt.phase = 4 => GroupOrders(rt.kind, rt.id) = rt.snap

\* C8: when deleteTutorial(id) succeeds, every screenshot that had
\* tutorialId = id when it was called is stored, has tutorialId null and is
\* among getUnassignedScreenshots(); no step of deleteTutorial removes a
\* screenshot.
C8_ScreenshotsUnassigned ==
  [][/\ (del.pc = "dt_tutorial" /\ del'.res = "deleted")
        => \A id \in del.pre :
             /\ \E sh \in screenshots' : sh.id = id /\ sh.tutorialId = Null
             /\ \E i \in 1..Len(getUnassignedScreenshots') :
                  getUnassignedScreenshots'[i] = id
     /\ del' # del => StoredIds \subseteq StoredIds']_vars

C8_Witness ==
  /\ del.res = "deleted"
  /\ del.pre # {}
  /\ del.hn > 0

\* C9: when deleteHeader(id) succeeds, the header is gone, no step has
\* headerId = id, getStepsForHeader(id) is empty, and the other headers and
\* their steps are as before.
C9_HeaderAndStepsGone ==
  [][(del.pc = "dt_header" /\ del' # del /\ del'.hres = "ok")
     => \A id \in {Head(del.list)} :
            /\ \A h \in headers' : h.id # id
            /\ \A st \in steps' : st.headerId # id
            /\ getStepsForHeader(id)' = <<>>
            /\ headers' = {h \in headers : h.id # id}
            /\ steps' = {st \in steps : st.headerId # id}]_vars

C9_Witness ==
  /\ del.pc = "dt_header"
  /\ del.hres = "ok"
  /\ del.hn > 0
  /\ steps # {}

\* C10: deleteHeader leaves either nothing of the header and its steps or
\* all of them; when a request of it fails it rejects and every record is
\* as before.
C10_DeleteHeaderAtomic ==
  [][(del.pc = "dt_header" /\ del' # del)
     => LET id == Head(del.list)
        IN  /\ \/ /\ \A h \in headers' : h.id # id
                  /\ \A st \in steps' : st.headerId # id
               \/ /\ {h \in headers' : h.id = id} = {h \in headers : h.id = id}
                  /\ {st \in steps' : st.headerId = id} =
                       {st \in steps : st.headerId = id}
            /\ faults' # faults
                 => /\ del'.hres = "rejected"
                    /\ del'.res = "rejected"
                    /\ headers' = headers
                    /\ steps' = steps]_vars

C10_Witness ==
  /\ del.hres = "rejected"
  /\ del.hn > 1
  /\ \E st \in steps : st.headerId = del.hid

\* ---- the edit page, loaded before, beside deleteTutorial called from the
\* ---- tutorials page
InitOrphan ==
  /\ screenshots = {Shot(1, 1, 409600, currentTutorialId)}
  /\ nextScreenshotId = 2
  /\ InitTutorial(2, 2, 1)
  /\ now = 1
  /\ storageQuotaMB = 1
  /\ retentionDays = 1
  /\ faults \in {0, MaxFaults}
  /\ InitSw(0)
  /\ InitUi(MaxEdits, 0, MaxDeletes)

NextOrphan ==
  \/ \E t \in tutorials : DeleteTutorial(t.id)
  \/ DelGotHeaders
  \/ DeleteHeader
  \/ DelGotScreenshots
  \/ DelUnassigned
  \/ DelTutorialRecord
  \/ \E e \in EdOps, h \in domHeaders : AddNewStep(e, h)
  \/ \E e \in EdOps : AddNewStepDone(e)
  \/ \E e \in EdOps, kind \in {"header", "step"}, id \in 1..3,
        dir \in {"up", "down"} : MoveStart(e, kind, id, dir)
  \/ \E e \in EdOps : MoveWrite(e)
  \/ \E e \in EdOps : LoadGotTutorial(e)
  \/ \E e \in EdOps : LoadGotHeaders(e)
  \/ \E e \in EdOps : LoadGotSteps(e)

SpecOrphan == InitOrphan /\ [][NextOrphan]_vars

\* C11: the headerId of every step is the id of a stored header.
C11_StepsHaveHeaders ==
  \A st \in steps : \E h \in headers : h.id = st.headerId

\* ------------------------------------------ the helper called on its own
\* A page of the extension calls an exported function of idb-helper.js.
TutorialIdChoices == {-1, Null, 1, 2}

ScreenshotIdChoices == 1..3

getScreenshotById(id) == {sh \in screenshots : sh.id = id}

\* addScreenshot(r) of a record with the given timestamp (Null: none), size
\* and tutorialId, up to the creation of its transaction.
ApiAddScreenshot(e, ts, size, tut) ==
  /\ FreeEd(e)
  /\ ed' = [ed EXCEPT ![e] = [IdleEd EXCEPT
               !.pc = "api_add", !.kind = "addScreenshot",
               !.step = <<[timestamp |-> ts, imageSizeBytes |-> size,
                           tutorialId |-> tut]>>]]
  /\ idbQueue' = Enqueue(idbQueue, e, {STORE_SCREENSHOTS}, "readwrite")
  /\ edits' = edits - 1
  /\ rt' = RtStart("addScreenshot", Null, "")
  /\ UNCHANGED <<shotVars, tutVars, setVars, now, faults, swVars, pageVars,
                 pop, del>>

\* addScreenshot resolves with the new id, and getScreenshotById of that id
\* is called, or it rejects.
ApiAdded(e) ==
  /\ ed[e].pc = "api_add"
  /\ Runnable(e)
  /\ \E fail \in FaultChoice :
       LET r == ed[e].step[1]
       IN  /\ Fault(fail)
           /\ IF fail
              THEN /\ UNCHANGED shotVars
                   /\ ed' = [ed EXCEPT ![e] = EdFinished(@, "rejected")]
                   /\ idbQueue' = Dequeue(e)
              ELSE /\ screenshots' = addScreenshot(r.timestamp,
                                        r.imageSizeBytes, r.tutorialId)
                   /\ nextScreenshotId' = nextScreenshotId + 1
                   /\ ed' = [ed EXCEPT ![e] = [@ EXCEPT !.pc = "api_get",
                                                       !.a = nextScreenshotId]]
                   /\ idbQueue' = Enqueue(Dequeue(e), e, {STORE_SCREENSHOTS},
                                          "readonly")
  /\ UNCHANGED <<tutVars, setVars, now, swVars, pageVars, edits, rt, pop,
                 del>>

\* getScreenshotById resolves with the record or rejects.
ApiGot(e) ==
  /\ ed[e].pc = "api_get"
  /\ Runnable(e)
  /\ idbQueue' = Dequeue(e)
  /\ ed' = [ed EXCEPT ![e] = EdFinished(@,
               IF getScreenshotById(ed[e].a) # {} THEN "got"
               ELSE "notfound")]
  /\ UNCHANGED <<shotVars, tutVars, setVars, now, faults, swVars, pageVars,
                 edits, rt, pop, del>>

\* The transaction of deleteScreenshots(ids): one delete request per id, in
\* the order of the array; failed = 0 when every request succeeds, and
\* otherwise the number of the request that fails.  The error handler of a
\* request counts the failure and does not call preventDefault, so the
\* failed request aborts the transaction: the deletions made before it are
\* undone, and the requests after it fail with the transaction.
deleteScreenshotsTransaction(list, failed) ==
  IF failed = 0
  THEN deleteScreenshots({list[i] : i \in 1..Len(list)})
  ELSE screenshots

\* deleteScreenshots(ids) up to the creation of its transaction; with no
\* ids it resolves at once.
ApiDeleteScreenshots(e, ids) ==
  /\ FreeEd(e)
  /\ IF ids = {}
     THEN /\ ed' = [ed EXCEPT ![e] = EdFinished(
                       [IdleEd EXCEPT !.kind = "deleteScreenshots"],
                       "resolved")]
          /\ idbQueue' = idbQueue
     ELSE /\ ed' = [ed EXCEPT ![e] = [IdleEd EXCEPT
                       !.pc = "api_del", !.kind = "deleteScreenshots",
                       !.list = ById(ids)]]
          /\ idbQueue' = Enqueue(idbQueue, e, {STORE_SCREENSHOTS},
                                 "readwrite")
  /\ edits' = edits - 1
  /\ rt' = RtStart("deleteScreenshots", Null, "")
  /\ UNCHANGED <<shotVars, tutVars, setVars, now, faults, swVars, pageVars,
                 pop, del>>

\* The requests of deleteScreenshots have all succeeded or failed: it
\* resolves or rejects.  The ended handler keeps, in b, the number of the
\* request that failed.
ApiDeleted(e) ==
  /\ ed[e].pc = "api_del"
  /\ Runnable(e)
  /\ idbQueue' = Dequeue(e)
  /\ \E fail \in FaultChoice :
     \E failed \in IF fail THEN 1..Len(ed[e].list) ELSE {0} :
       /\ Fault(fail)
       /\ screenshots' = deleteScreenshotsTransaction(ed[e].list, failed)
       /\ ed' = [ed EXCEPT ![e] =
                   [EdFinished(@, IF fail THEN "rejected" ELSE "resolved")
                      EXCEPT !.b = failed]]
  /\ UNCHANGED <<nextScreenshotId, tutVars, setVars, now, swVars, pageVars,
                 edits, rt, pop, del>>

\* assignScreenshotToTutorial(screenshotId, tutorialId) up to the creation
\* of its transaction.
ApiAssign(e, screenshotId, tutorialId) ==
  /\ FreeEd(e)
  /\ ed' = [ed EXCEPT ![e] = [IdleEd EXCEPT
               !.pc = "api_assign", !.kind = "assignScreenshotToTutorial",
               !.a = screenshotId, !.b = tutorialId]]
  /\ idbQueue' = Enqueue(idbQueue, e, {STORE_SCREENSHOTS}, "readwrite")
  /\ edits' = edits - 1
  /\ rt' = RtStart("assignScreenshotToTutorial", Null, "")
  /\ UNCHANGED <<shotVars, tutVars, setVars, now, faults, swVars, pageVars,
                 pop, del>>

\* assignScreenshotToTutorial resolves, rejects because there is no such
\* screenshot, or rejects because a request failed.
ApiAssigned(e) ==
  /\ ed[e].pc = "api_assign"
  /\ Runnable(e)
  /\ idbQueue' = Dequeue(e)
  /\ \E fail \in FaultChoice :
       LET result == assignScreenshotToTutorial(ed[e].a, ed[e].b)
       IN  /\ Fault(fail)
           /\ screenshots' = IF fail THEN screenshots ELSE result.screenshots
           /\ ed' = [ed EXCEPT ![e] = EdFinished(@,
                       IF fail THEN "rejected"
                       ELSE IF result.ok THEN "assigned" ELSE "notfound")]
  /\ UNCHANGED <<nextScreenshotId, tutVars, setVars, now, swVars, pageVars,
                 edits, rt, pop, del>>

\* ---- the helper called from one page, one call at a time
InitApi ==
  /\ screenshots \in {{}, {Shot(1, 1, 409600, Null)},
                       {Shot(1, 1, 409600, currentTutorialId),
                        Shot(2, 2, 409600, Null)}}
  /\ nextScreenshotId = 3
  /\ InitTutorial(1, 1, Null)
  /\ now = 1
  /\ storageQuotaMB = 1
  /\ retentionDays = 1
  /\ faults \in {0, MaxFaults}
  /\ InitSw(0)
  /\ InitUi(MaxEdits, 0, 0)

NextApi ==
  \/ \E ts \in 0..MaxClock, size \in ImageSizes, tut \in TutorialIdChoices :
        ApiAddScreenshot("e1", ts, size, tut)
  \/ ApiAdded("e1")
  \/ ApiGot("e1")
  \/ \E ids \in SUBSET ScreenshotIdChoices : ApiDeleteScreenshots("e1", ids)
  \/ ApiDeleted("e1")
  \/ \E id \in ScreenshotIdChoices, tut \in TutorialIdChoices :
        ApiAssign("e1", id, tut)
  \/ ApiAssigned("e1")

SpecApi == InitApi /\ [][NextApi]_vars

\* C12: getScreenshotById of the id addScreenshot(r) returned yields r's
\* timestamp and size, and as tutorialId r's when that is a positive number
\* and the id of a stored tutorial, and null otherwise.
C12_AddThenGet ==
  [][\A e \in EdOps :
       (ed[e].pc = "api_get" /\ ed'[e].res = "got" /\ ed'[e] # ed[e])
       => \A got \in getScreenshotById(ed[e].a) :
            LET r == ed[e].step[1]
            IN  /\ got.timestamp = r.timestamp
                /\ got.imageSizeBytes = r.imageSizeBytes
                /\ got.tutorialId =
                     IF /\ r.tutorialId > 0
                        /\ \E t \in tutorials : t.id = r.tutorialId
                     THEN r.tutorialId ELSE Null]_vars

\* ---- the service worker, one capture or cleanup at a time
SwAtRest ==
  /\ \A p \in SwProcs : sw[p].pc = "idle"
  /\ \A t \in Tabs : ~debouncedCaptures[t]

InitEvict ==
  /\ screenshots \in
       {{}, {Shot(1, 1, 409600, Null)},
        {Shot(1, 1, 409600, Null), Shot(2, 2, 409600, currentTutorialId),
         Shot(3, 3, 409600, Null)},
        {Shot(1, Null, 409600, Null), Shot(2, 2, 409600, Null),
         Shot(3, 3, 409600, Null)}}
  /\ nextScreenshotId = 4
  /\ InitTutorial(0, 0, Null)
  /\ now = MaxClock
  /\ storageQuotaMB \in {Null, -1, 1}
  /\ retentionDays \in {Null, 1}
  /\ faults \in {0, MaxFaults}
  /\ InitSw(MaxClicks)
  /\ InitUi(0, 0, 0)

NextEvict ==
  \/ \E t \in Tabs : SwAtRest /\ CaptureClick(t)
  \/ \E t \in Tabs : TimerFires(t, "c1")
  \/ CaptureSettings("c1")
  \/ CaptureVisibleTab("c1")
  \/ CaptureThumbnail("c1")
  \/ CaptureGotCounter("c1")
  \/ CaptureSetCounter("c1")
  \/ CaptureAdded("c1")
  \/ \E p \in SwProcs : EnforceGotTotal(p)
  \/ \E p \in SwProcs : EnforceGotOldest(p)
  \/ \E p \in SwProcs : EnforceDeleted(p)
  \/ SwAtRest /\ CleanupAlarm
  \/ CleanupSettings
  \/ CleanupGotOlder
  \/ CleanupDeleted

SpecEvict == InitEvict /\ [][NextEvict]_vars

\* C13: a quota check for an image that fits the quota deletes one
\* screenshot at a time, each the oldest by timestamp and only while the
\* stored total and the new image exceed the quota, and returns true only
\* when they no longer do: the screenshots it deleted are the shortest
\* prefix of the timestamp order that makes room.  (Holds under SpecEvict,
\* where one capture or cleanup runs at a time.)
C13_ShortestPrefix ==
  [][\A p \in SwProcs :
       (/\ sw[p].pc \in EnforcePcs
        /\ sw[p].quota > 0
        /\ sw[p].size <= maxSizeBytes(sw[p].quota)
        /\ sw'[p] # sw[p])
       => /\ screenshots' # screenshots
               => /\ SumSizes(screenshots) + sw[p].size >
                       maxSizeBytes(sw[p].quota)
                  /\ \E gone \in InTimestampIndex(screenshots) :
                       /\ screenshots' = screenshots \ {gone}
                       /\ \A sh \in InTimestampIndex(screenshots) :
                            gone.timestamp <= sh.timestamp
          /\ (sw'[p].pc \notin EnforcePcs /\ sw'[p].res = "true")
               => SumSizes(screenshots') + sw[p].size <=
                    maxSizeBytes(sw[p].quota)]_vars

\* C14: moveHeader(H2, up) on headers H1 (order 0), H2 (order 1), when it
\* succeeds, leaves H2 at order 0 and H1 at order 1; no write of a
\* moveHeader changes a step or a header field other than order.
C14_MoveHeaderUp ==
  [][/\ (/\ rt.phase = 1 /\ rt'.phase = 2
         /\ rt.kind = "header" /\ rt.id = 2
         /\ {[id |-> 1, order |-> 0], [id |-> 2, order |-> 1]}
              \subseteq rt.snap)
        => {[id |-> h.id, order |-> h.order] : h \in headers'} =
             (rt.snap \ {[id |-> 1, order |-> 0], [id |-> 2, order |-> 1]})
               \cup {[id |-> 2, order |-> 0], [id |-> 1, order |-> 1]}
     /\ \A e \in EdOps :
          (ed[e].kind = "header" /\ ed[e].pc \in MovePcs /\ ed'[e] # ed[e])
          => /\ steps' = steps
             /\ {[h EXCEPT !.order = 0] : h \in headers'} =
                  {[h EXCEPT !.order = 0] : h \in headers}]_vars

C14_Witness ==
  /\ rt.phase = 2
  /\ rt.kind = "header"
  /\ rt.id = 2
  /\ rt.snap = {[id |-> 1, order |-> 0], [id |-> 2, order |-> 1]}
  /\ Cardinality(steps) >= 2

\* C15: a screenshot record is only ever inserted by a call chain in which
\* enforceStorageQuota was called for the record's size and returned true.
C15_InsertAfterQuotaCheck ==
  [][\A new \in screenshots' :
       new.id \notin StoredIds
       => \E c \in Chains : /\ sw[c].pc = "add"
                            /\ sw'[c] # sw[c]
                            /\ sw[c].res = "true"
                            /\ sw[c].size = new.imageSizeBytes]_vars

\* The step in which process p calls enforceStorageQuota: a capture after
\* captureVisibleTab, the cleanup after its retention pass.
CallsEnforce(p) ==
  /\ sw[p].pc \in {"capture", "cl_older", "cl_delete"}
  /\ sw'[p].pc \in EnforcePcs \cup {"thumb", "idle"}
  /\ sw'[p].res \in {"none", "true", "false"}

\* C16: called with a quota that is unset or not positive, enforceStorageQuota
\* returns true at once and deletes nothing, whatever the size of the new image
\* and the total stored.
C16_NoQuotaReturnsTrue ==
  [][\A p \in SwProcs :
       (CallsEnforce(p) /\ (sw'[p].quota = Null \/ sw'[p].quota <= 0))
       => /\ sw'[p].res = "true"
          /\ sw'[p].made = FALSE
          /\ sw'[p].item = <<>>
          /\ p \in Chains => screenshots' = screenshots]_vars

C16_Witness ==
  /\ sw["c1"].pc = "thumb"
  /\ sw["c1"].quota = -1
  /\ sw["c1"].res = "true"
  /\ getTotalStorageUsed + sw["c1"].size > maxSizeBytes(1)
  /\ Cardinality(screenshots) = 3

\* C17: for a new image that fits the quota by itself, enforceStorageQuota
\* returns false only when no screenshot record is left in the store.
C17_FalseMeansStoreEmpty ==
  [][\A p \in SwProcs :
       (/\ sw[p].pc \in EnforcePcs
        /\ sw'[p].pc \notin EnforcePcs
        /\ sw'[p].res = "false"
        /\ ~Oversize(sw[p].size, sw[p].quota))
       => screenshots' = {}]_vars

\* ---- clicks in the pages: content scripts, the runtime messages they send
\* ---- and the service worker's message listener
\* The toggle button of the popup flips the stored captureEnabled; starting a
\* capture session resets the step counter.
ToggleCapture ==
  /\ captureEnabled' = ~captureEnabled
  /\ stepCounter' = IF ~captureEnabled THEN 0 ELSE stepCounter
  /\ UNCHANGED <<shotVars, tutVars, storageQuotaMB, retentionDays, dbVars, burstVars, cs,
                 runtimeMessages, now, faults, debouncedCaptures, clicks, sw,
                 uiVars, idbQueue>>

\* chrome.storage.onChanged reaches the content script of tab t.
CsStorageChanged(t) ==
  /\ cs[t].captureEnabled # captureEnabled
  /\ cs' = [cs EXCEPT ![t].captureEnabled = captureEnabled]
  /\ UNCHANGED <<shotVars, tutVars, storageQuotaMB, retentionDays, dbVars, burstVars,
                 captureEnabled, runtimeMessages, now, faults, swVars, uiVars,
                 idbQueue>>

\* The message a content script sends for a click.
ClickMessage(t) == [type |-> "CLICK_DETECTED", tab |-> t]

\* handleDocumentClick in tab t: nothing when capture is disabled or the click
\* is debounced; else the click is reported at once (navigation element) or
\* from a timer (any other element).
handleDocumentClick(t, isNav) ==
  /\ clicks > 0
  /\ clicks' = clicks - 1
  /\ IF ~cs[t].captureEnabled \/ now - cs[t].lastClickTime < DebounceTicks
     THEN UNCHANGED <<cs, runtimeMessages>>
     ELSE IF isNav
          THEN /\ cs' = [cs EXCEPT ![t].lastClickTime = now]
               /\ runtimeMessages' = Append(runtimeMessages, ClickMessage(t))
          ELSE /\ cs' = [cs EXCEPT ![t].lastClickTime = now,
                                   ![t].timers = @ + 1]
               /\ runtimeMessages' = runtimeMessages
  /\ UNCHANGED <<shotVars, tutVars, storageQuotaMB, retentionDays, dbVars, burstVars,
                 captureEnabled, now, faults, stepCounter, debouncedCaptures,
                 sw, uiVars, idbQueue>>

\* The 100 ms timer of a click on an ordinary element fires.
CsTimerFires(t) ==
  /\ cs[t].timers > 0
  /\ cs' = [cs EXCEPT ![t].timers = @ - 1]
  /\ runtimeMessages' = Append(runtimeMessages, ClickMessage(t))
  /\ UNCHANGED <<shotVars, tutVars, storageQuotaMB, retentionDays, dbVars, burstVars,
                 captureEnabled, now, faults, swVars, uiVars, idbQueue>>

\* The service worker's onMessage listener takes the next message: a
\* CAPTURE_CLICK starts handleCaptureAndStore for the sender's tab when
\* capture is enabled; no branch matches any other type of click message.
OnMessage ==
  /\ runtimeMessages # <<>>
  /\ runtimeMessages' = Tail(runtimeMessages)
  /\ LET message == Head(runtimeMessages)
     IN  IF message.type = "CAPTURE_CLICK" /\ captureEnabled
         THEN debouncedCaptures' =
                [debouncedCaptures EXCEPT ![message.tab] = TRUE]
         ELSE debouncedCaptures' = debouncedCaptures
  /\ UNCHANGED <<shotVars, tutVars, storageQuotaMB, retentionDays, dbVars, burstVars,
                 captureEnabled, cs, now, faults, stepCounter, clicks, sw,
                 uiVars, idbQueue>>

InitClick ==
  /\ screenshots = {}
  /\ nextScreenshotId = 1
  /\ InitTutorial(0, 0, Null)
  /\ now = 1
  /\ storageQuotaMB = 1
  /\ retentionDays = 1
  /\ faults = 0
  /\ InitSw(MaxClicks)
  /\ InitUi(0, 0, 0)

NextClick ==
  \/ ToggleCapture
  \/ \E t \in Tabs : CsStorageChanged(t)
  \/ \E t \in Tabs, isNav \in BOOLEAN : handleDocumentClick(t, isNav)
  \/ \E t \in Tabs : CsTimerFires(t)
  \/ OnMessage
  \/ Tick

\* The browser runs every timer that is due and dispatches every message.
SpecClick ==
  /\ InitClick
  /\ [][NextClick]_vars
  /\ WF_vars(OnMessage)
  /\ \A t \in Tabs : WF_vars(CsTimerFires(t))

\* C18: while capture is enabled, a click that a content script has reported
\* to the service worker leads to a capture being started for that tab.
C18_ReportedClickCaptured ==
  \A t \in Tabs :
    (\E i \in 1..Len(runtimeMessages) : runtimeMessages[i].tab = t)
      ~> (debouncedCaptures[t] \/ ~captureEnabled)

\* C19: when a delete request of deleteScreenshots(ids) fails, the call
\* rejects and the records whose own delete request succeeded stay deleted;
\* with no ids the call resolves and leaves the store as it is.
C19_PartialDeleteKept ==
  [][\A e \in EdOps :
       /\ (ed[e].pc = "api_del" /\ ed'[e] # ed[e] /\ ed'[e].b > 0)
          => /\ ed'[e].res = "rejected"
             /\ \A i \in 1..(ed'[e].b - 1) :
                  \A id \in {ed[e].list[i]} : id \notin StoredIds'
       /\ (ed[e].pc = "idle" /\ ed'[e].kind = "deleteScreenshots"
           /\ ed'[e].pc = "idle")
          => /\ ed'[e].res = "resolved"
             /\ screenshots' = screenshots]_vars

\* C20: assignScreenshotToTutorial(id, t) rejects with a not-found error and
\* leaves the store as it is when no screenshot has that id; when one has, a
\* call that resolves has changed that record's tutorialId to t and nothing
\* else.
C20_AssignOnlyTutorialId ==
  [][\A e \in EdOps :
       (ed[e].pc = "api_assign" /\ ed'[e] # ed[e])
       => IF \E sh \in screenshots : sh.id = ed[e].a
          THEN IF ed'[e].res = "assigned"
               THEN screenshots' =
                      {IF sh.id = ed[e].a
                       THEN [sh EXCEPT !.tutorialId = ed[e].b]
                       ELSE sh : sh \in screenshots}
               ELSE screenshots' = screenshots
          ELSE /\ ed'[e].res \in {"notfound", "rejected"}
               /\ faults' = faults => ed'[e].res = "notfound"
               /\ screenshots' = screenshots]_vars

C20_Witness ==
  /\ ed["e1"].kind = "assignScreenshotToTutorial"
  /\ ed["e1"].res = "notfound"
  /\ Cardinality(screenshots) = 2

\* ---- opening the database: the schema upgrade and the cached connection
\* The schemas the upgrade handler expects to find on disk: nothing, the
\* screenshots store alone, or the stores of a later version, the screenshots
\* store with or without its tutorialId index and the tutorialSteps store with
\* any of the indexes the handler deletes or adds.
PriorSchemas ==
  LET ShotIdx == {CreatedIndexes(STORE_SCREENSHOTS),
                  CreatedIndexes(STORE_SCREENSHOTS) \cup {"tutorialId"}}
      StepIdx == {CreatedIndexes(STORE_TUTORIAL_STEPS) \cup X :
                    X \in SUBSET {"tutorialId_order", "headerId",
                                 "headerId_order"}}
      Schema(stores, shot, step) ==
        [stores |-> stores,
         idx |-> [store \in STORES |->
                    IF store \notin stores THEN {}
                    ELSE IF store = STORE_SCREENSHOTS THEN shot
                    ELSE IF store = STORE_TUTORIAL_STEPS THEN step
                    ELSE CreatedIndexes(store)]]
  IN  {NoSchema}
      \cup {Schema({STORE_SCREENSHOTS}, shot, {}) : shot \in ShotIdx}
      \cup {Schema(stores, shot, step) :
              stores \in {STORES \ {STORE_HEADERS}, STORES},
              shot \in ShotIdx, step \in StepIdx}

\* initDB called by p: the cached connection when there is one, else a new
\* open request.
initDB(p) ==
  /\ conn[p].pc = "idle"
  /\ IF db # Null
     THEN /\ conn' = [conn EXCEPT ![p] = [pc |-> "done", handle |-> db]]
          /\ UNCHANGED <<opened, openRequests>>
     ELSE /\ opened' = opened + 1
          /\ openRequests' = Append(openRequests,
                                    [p |-> p, id |-> opened + 1,
                                     oldVersion |-> Null])
          /\ conn' = [conn EXCEPT ![p].pc = "opening"]
  /\ UNCHANGED <<shotVars, tutVars, storageQuotaMB, retentionDays, csVars, burstVars,
                 schema, dbVersion, db, prior, now, faults, swVars, uiVars,
                 idbQueue>>

\* The oldest open request finds an older version on disk: its upgrade
\* handler caches the connection and brings the schema up to date. The
\* request remembers the version its upgrade transaction started from.
UpgradeNeeded ==
  /\ openRequests # <<>>
  /\ dbVersion < DB_VERSION
  /\ db' = Head(openRequests).id
  /\ schema' = onupgradeneeded(schema)
  /\ dbVersion' = DB_VERSION
  /\ openRequests' = [openRequests EXCEPT ![1].oldVersion = dbVersion]
  /\ UNCHANGED <<shotVars, tutVars, storageQuotaMB, retentionDays, csVars, burstVars,
                 opened, conn, prior, now, faults, swVars,
                 uiVars, idbQueue>>

\* The oldest open request succeeds: its handler caches the connection and
\* resolves the caller's promise with it.
OpenSuccess ==
  /\ openRequests # <<>>
  /\ dbVersion = DB_VERSION
  /\ db' = Head(openRequests).id
  /\ conn' = [conn EXCEPT ![Head(openRequests).p] =
                [pc |-> "done", handle |-> Head(openRequests).id]]
  /\ openRequests' = Tail(openRequests)
  /\ UNCHANGED <<shotVars, tutVars, storageQuotaMB, retentionDays, csVars, burstVars,
                 schema, dbVersion, opened, prior, now, faults, swVars,
                 uiVars, idbQueue>>

\* The oldest open request fails: its error handler rejects the caller's
\* promise and assigns nothing. A request whose upgrade had started fails
\* because the upgrade transaction aborted, which puts the stores, the indexes
\* and the version on disk back to what they were.
OpenError ==
  /\ openRequests # <<>>
  /\ TRUE \in FaultChoice
  /\ Fault(TRUE)
  /\ conn' = [conn EXCEPT ![Head(openRequests).p] =
                [pc |-> "rejected", handle |-> Null]]
  /\ IF db = Head(openRequests).id
     THEN /\ schema' = prior
          /\ dbVersion' = Head(openRequests).oldVersion
     ELSE UNCHANGED <<schema, dbVersion>>
  /\ openRequests' = Tail(openRequests)
  /\ UNCHANGED <<shotVars, tutVars, storageQuotaMB, retentionDays, csVars, burstVars,
                 db, opened, prior, now, swVars, uiVars, idbQueue>>

\* The operation that needed the database ends, or the caller has seen the
\* rejection; the caller may start another.
OperationEnds(p) ==
  /\ conn[p].pc \in {"done", "rejected"}
  /\ conn' = [conn EXCEPT ![p].pc = "idle"]
  /\ UNCHANGED <<shotVars, tutVars, storageQuotaMB, retentionDays, csVars, burstVars,
                 schema, dbVersion, db, opened, openRequests, prior, now,
                 faults, swVars, uiVars, idbQueue>>

InitSchema ==
  /\ screenshots = {}
  /\ nextScreenshotId = 1
  /\ InitTutorial(0, 0, Null)
  /\ now = 1
  /\ storageQuotaMB = 1
  /\ retentionDays = 1
  /\ faults = 0
  /\ captureEnabled = TRUE
  /\ cs = [t \in Tabs |-> IdleCs]
  /\ runtimeMessages = <<>>
  /\ stepCounter = 0
  /\ debouncedCaptures = [t \in Tabs |-> FALSE]
  /\ clicks = 0
  /\ sw = [p \in SwProcs |-> IdleSw]
  /\ idbQueue = <<>>
  /\ InitUi(0, 0, 0)
  /\ schema \in PriorSchemas \cup {onupgradeneeded(NoSchema)}
  /\ prior = schema
  /\ dbVersion \in IF schema = NoSchema THEN {0}
                   ELSE IF schema = onupgradeneeded(NoSchema) THEN {DB_VERSION}
                   ELSE 1..(DB_VERSION - 1)
  /\ db = Null
  /\ opened = 0
  /\ openRequests = <<>>
  /\ conn = [p \in Callers |-> IdleConn]
  /\ InitBurst

NextSchema ==
  \/ \E p \in Callers : initDB(p)
  \/ UpgradeNeeded
  \/ OpenSuccess
  \/ OpenError
  \/ \E p \in Callers : OperationEnds(p)

SpecSchema == InitSchema /\ [][NextSchema]_vars

\* The indexes of store s before any upgrade that are gone now.
RemovedIndexes(s) == prior.idx[s] \ schema.idx[s]

C22_UpgradeReachesFreshSchema ==
  dbVersion = DB_VERSION
  => /\ schema = onupgradeneeded(NoSchema)
     /\ onupgradeneeded(schema) = schema

C22_Witness ==
  /\ dbVersion = DB_VERSION
  /\ prior.stores = STORES \ {STORE_HEADERS}
  /\ "tutorialId_order" \in prior.idx[STORE_TUTORIAL_STEPS]
  /\ "tutorialId" \notin prior.idx[STORE_SCREENSHOTS]
  /\ schema # prior

\* C23: the database is opened at most once, and every caller of initDB gets
\* the same connection.
C23_OneConnection ==
  /\ opened <= 1
  /\ \A p, q \in Callers :
       (conn[p].handle # Null /\ conn[q].handle # Null)
       => conn[p].handle = conn[q].handle

\* C24: when the popup's deleteScreenshot(id) has completed without error,
\* there is no screenshot record id and no tutorial step shows screenshot id.
C24_DeletedWithSteps ==
  [][(pop.pc = "ds_steps" /\ pop'.pc = "idle" /\ pop'.res = "deleted")
     => \A id \in {pop.tut} :
          /\ id \notin StoredIds'
          /\ \A st \in steps' : st.screenshotId # id]_vars

C24_Witness ==
  /\ pop.pc = "idle"
  /\ pop.res = "deleted"
  /\ 1 \notin StoredIds
  /\ steps = {}
  /\ \E e \in EdOps : ed[e].kind = "import"

\* C25: an enforceStorageQuota call that returns after deleting at least one
\* screenshot has sent STORAGE_UPDATED, whether it returns true or false; a
\* call that has deleted nothing sends no message.
C25_UpdateSentIffDeleted ==
  [][\A p \in SwProcs :
       (/\ sw[p].pc \in EnforcePcs
        /\ sw'[p].pc \notin EnforcePcs
        /\ sw'[p].res \in {"true", "false"})
       => IF sw'[p].made
          THEN "STORAGE_UPDATED" \in sw'[p].sent
          ELSE sw'[p].sent = sw[p].sent]_vars

\* C26: a capture whose enforceStorageQuota call returned false ends without
\* inserting a screenshot record and without sending SCREENSHOT_TAKEN, and it
\* sets the FULL badge.
C26_RefusedCaptureNotSaved ==
  [][\A c \in Chains :
       (/\ sw[c].pc \in EnforcePcs
        /\ sw'[c].pc \notin EnforcePcs
        /\ sw'[c].res = "false")
       => /\ sw'[c].pc = "idle"
          /\ sw'[c].badge = "FULL"
          /\ "SCREENSHOT_TAKEN" \notin sw'[c].sent
          /\ nextScreenshotId' = nextScreenshotId
          /\ StoredIds' \subseteq StoredIds]_vars

C26_Witness ==
  \E c \in Chains :
    /\ sw[c].pc = "idle"
    /\ sw[c].res = "false"
    /\ sw[c].badge = "FULL"
    /\ sw[c].size <= maxSizeBytes(sw[c].quota)

\* C27: a step of deleteTutorial(id) leaves each header of the tutorial with
\* all of its steps or removes it with all of them, and removes the tutorial
\* record only when no header and no screenshot of the tutorial is left; when
\* deleteTutorial fails, the tutorial record still exists and no step is left
\* of the header it deleted last.
C27_FailedDeleteKeepsTutorial ==
  [][(del.pc # "idle" /\ del' # del)
     => /\ \A h \in headers :
             h.tutorialId = del.tid
             => \/ /\ h \in headers'
                   /\ {st \in steps' : st.headerId = h.id} =
                        {st \in steps : st.headerId = h.id}
                \/ /\ \A x \in headers' : x.id # h.id
                   /\ \A st \in steps' : st.headerId # h.id
        /\ \A t \in tutorials \ tutorials' :
             /\ t.id = del.tid
             /\ \A h \in headers' : h.tutorialId # t.id
             /\ \A sh \in screenshots' : sh.tutorialId # t.id
        /\ del'.res = "rejected"
           => /\ \E t \in tutorials' : t.id = del.tid
              /\ del'.hres = "ok"
                 => \A st \in steps' : st.headerId # del'.hid]_vars

\* The group the edit page holds for a record: the cached headers, or the
\* cached steps of the first cached header holding the step.
C28_Group(kind, id) ==
  IF kind = "header" THEN currentHeadersData
  ELSE IF HeaderOfStep(id) = 0 THEN <<>>
  ELSE currentHeadersData[HeaderOfStep(id)].steps

\* The call is a move up of the first record of its group or a move down
\* of the last one.
C28_AtEdge(kind, id, dir) ==
  /\ C28_Group(kind, id) # <<>>
  /\ \/ dir = "up" /\ C28_Group(kind, id)[1].id = id
     \/ dir = "down" /\ C28_Group(kind, id)[Len(C28_Group(kind, id))].id = id

\* C28: moveHeader / moveStep called with direction up on the first record
\* of its group, or with direction down on the last one, returns at once
\* and writes nothing: no transaction is requested and every header and
\* step record, stored or cached, is as before.
C28_BoundaryMoveWritesNothing ==
  [][\A e \in EdOps :
       (/\ ed[e].pc = "idle"
        /\ ed'[e] # ed[e]
        /\ ed'[e].kind \in {"header", "step"}
        /\ ed'[e].a # Null
        /\ C28_AtEdge(ed'[e].kind, ed'[e].a, ed'[e].dir))
       => /\ ed'[e].pc = "idle"
          /\ idbQueue' = idbQueue
          /\ headers' = headers
          /\ steps' = steps
          /\ currentHeadersData' = currentHeadersData]_vars

\* A move up of the first stored header and a move down of the last stored
\* step have returned at a boundary.
C28_Witness ==
  /\ ed["e1"].res = "boundary"
  /\ ed["e1"].pc = "idle"
  /\ idbQueue = <<>>
  /\ \/ /\ ed["e1"].kind = "header"
        /\ ed["e1"].dir = "up"
        /\ \A h \in headers :
             \E x \in headers : x.id = ed["e1"].a /\ x.order <= h.order
     \/ /\ ed["e1"].kind = "step"
        /\ ed["e1"].dir = "down"
        /\ \A st \in steps :
             \E x \in steps : x.id = ed["e1"].a /\ x.order >= st.order

\* C29: while a swap is between its first and its third write, no two
\* records of the group of the moved record hold the same order, and no
\* other record of the group holds the sentinel of the swap, a sentinel
\* written by another swap in flight included.
C29_SwapKeepsOrdersDistinct ==
  \A e \in EdOps :
    (ed[e].pc \in {"w2", "w3"} /\ ed[e].kind \in {"header", "step"})
    => /\ \A x, y \in GroupOrders(ed[e].kind, ed[e].a) :
            x.order = y.order => x.id = y.id
       /\ \A x \in GroupOrders(ed[e].kind, ed[e].a) :
            x.order = ed[e].temp => x.id = ed[e].a

\* The order a header or step record holds in the given stores; Null - 1
\* when the record is not stored.
C30_OrderIn(hs, ss, kind, id) ==
  IF kind = "header"
  THEN IF \E h \in hs : h.id = id
       THEN (CHOOSE h \in hs : h.id = id).order ELSE Null - 1
  ELSE IF \E st \in ss : st.id = id
       THEN (CHOOSE st \in ss : st.id = id).order ELSE Null - 1

\* C30: when one write of a swap was rejected and the storage rejects
\* nothing else, the compensation of moveHeader / moveStep leaves both
\* records with the orders they had when the handler was called.
C30_FailedSwapRestored ==
  [][\A e \in EdOps :
       (/\ ed[e].pc \in {"rv1", "rv2"}
        /\ ed'[e].res = "reverted"
        /\ MaxFaults - faults' <= 1)
       => /\ C30_OrderIn(headers', steps', ed[e].kind, ed[e].a) = ed[e].oa
          /\ C30_OrderIn(headers', steps', ed[e].kind, ed[e].b) = ed[e].ob]_vars

\* The order values of the records are exactly 0 .. n-1 for n records.
C31_Dense(S) ==
  {x.order : x \in S} = 0..(Cardinality(S) - 1)

\* C31: when every handler of the edit page has ended, none of them with a
\* rejected write, the orders of the headers of a tutorial, and of the
\* steps of a header, are exactly 0 .. n-1.
C31_OrdersDense ==
  (/\ \A e \in EdOps : ed[e].pc = "idle" /\ ed[e].res \in {"none", "moved", "added"}
   /\ idbQueue = <<>>
   /\ faults = 0)
  => /\ \A t \in tutorials :
          C31_Dense({h \in headers : h.tutorialId = t.id})
     /\ \A h \in headers :
          C31_Dense({st \in steps : st.headerId = h.id})

\* C32: a daily cleanup that has read the settings goes on to the quota
\* check, called with new image size 0 and only after the retention pass
\* has deleted what it found; this also when the retention pass fails.
C32_CleanupAlwaysChecksQuota ==
  [][(sw["cleanup"].pc \in {"cl_older", "cl_delete"}
      /\ sw'["cleanup"] # sw["cleanup"])
     => \/ sw["cleanup"].pc = "cl_older" /\ sw'["cleanup"].pc = "cl_delete"
        \/ /\ CallsEnforce("cleanup")
           /\ sw'["cleanup"].size = 0
           /\ \A sh \in screenshots' : sh.id \notin sw["cleanup"].ids]_vars

\* C33: no step of a quota check or of the daily cleanup changes a
\* tutorial, header or step record: a step whose screenshot is evicted keeps
\* its screenshotId and its order.
C33_EvictionKeepsSteps ==
  [][(\E p \in SwProcs :
        /\ sw[p].pc \in EnforcePcs \cup {"cl_settings", "cl_older", "cl_delete"}
        /\ sw'[p] # sw[p])
     => /\ tutorials' = tutorials
        /\ headers' = headers
        /\ steps' = steps]_vars

\* A quota check has evicted the screenshot a stored step shows.
C33_Witness ==
  \E p \in SwProcs :
    /\ sw[p].made
    /\ sw[p].item # <<>>
    /\ sw[p].item[1].id \notin StoredIds
    /\ \E st \in steps : st.screenshotId = sw[p].item[1].id

\* updateScreenshot(screenshotId, {imageSizeBytes: size}) up to the
\* creation of its transaction.
ApiUpdateScreenshot(e, screenshotId, size) ==
  /\ FreeEd(e)
  /\ ed' = [ed EXCEPT ![e] = [IdleEd EXCEPT
               !.pc = "api_upd", !.kind = "updateScreenshot",
               !.a = screenshotId, !.size = size]]
  /\ idbQueue' = Enqueue(idbQueue, e, {STORE_SCREENSHOTS}, "readwrite")
  /\ edits' = edits - 1
  /\ rt' = RtStart("updateScreenshot", Null, "")
  /\ UNCHANGED <<shotVars, tutVars, setVars, now, faults, swVars, pageVars,
                 pop, del>>

\* updateScreenshot resolves, rejects because there is no such screenshot,
\* or rejects because a request failed.  The ended call keeps its
\* arguments.
ApiUpdated(e) ==
  /\ ed[e].pc = "api_upd"
  /\ Runnable(e)
  /\ idbQueue' = Dequeue(e)
  /\ \E fail \in FaultChoice :
       LET found == getScreenshotById(ed[e].a) # {}
       IN  /\ Fault(fail)
           /\ screenshots' =
                IF fail \/ ~found THEN screenshots
                ELSE updateScreenshot(ed[e].a, [imageSizeBytes |-> ed[e].size])
           /\ ed' = [ed EXCEPT ![e] =
                       [EdFinished(@, IF fail THEN "rejected"
                                      ELSE IF found THEN "updated"
                                      ELSE "notfound")
                          EXCEPT !.a = ed[e].a, !.size = ed[e].size]]
  /\ UNCHANGED <<nextScreenshotId, tutVars, setVars, now, swVars, pageVars,
                 edits, rt, pop, del>>

\* ---- two calls of the helper in flight on the screenshot store
InitUpdate ==
  /\ screenshots \in {{Shot(1, 1, 409600, Null)},
                       {Shot(1, 1, 409600, currentTutorialId),
                        Shot(2, 2, 409600, Null)}}
  /\ nextScreenshotId = 3
  /\ InitTutorial(1, 1, Null)
  /\ now = 1
  /\ storageQuotaMB = 1
  /\ retentionDays = 1
  /\ faults \in {0, MaxFaults}
  /\ InitSw(0)
  /\ InitUi(MaxEdits, 0, 0)

NextUpdate ==
  \/ \E e \in EdOps, id \in ScreenshotIdChoices, tut \in TutorialIdChoices :
        ApiAssign(e, id, tut)
  \/ \E e \in EdOps : ApiAssigned(e)
  \/ \E e \in EdOps, id \in ScreenshotIdChoices, size \in ImageSizes :
        ApiUpdateScreenshot(e, id, size)
  \/ \E e \in EdOps : ApiUpdated(e)

SpecUpdate == InitUpdate /\ [][NextUpdate]_vars

SpecEvictFair ==
  /\ SpecEvict
  /\ \A p \in SwProcs :
       /\ WF_vars(EnforceGotTotal(p))
       /\ WF_vars(EnforceGotOldest(p))
       /\ WF_vars(EnforceDeleted(p))

\* C35: while no screenshot is inserted beside it, every turn of the
\* eviction loop of a quota check removes one stored screenshot and leaves
\* a running total of zero or more, so the loop runs at most once per
\* stored screenshot; and every quota check comes to its end.
C35_EnforceTerminates ==
  /\ [][\A p \in SwProcs :
          (sw[p].pc = "delete" /\ sw'[p] # sw[p] /\ sw'[p].res # "error")
          => /\ Cardinality(screenshots') = Cardinality(screenshots) - 1
             /\ sw'[p].total >= 0
             /\ sw'[p].total <= sw[p].total]_vars
  /\ \A p \in SwProcs :
       (sw[p].pc \in EnforcePcs) ~> (sw[p].pc \notin EnforcePcs)

\* A quota check has gone twice through its loop and returned true.
C35_Witness ==
  /\ sw["c1"].pc = "thumb"
  /\ sw["c1"].res = "true"
  /\ sw["c1"].made
  /\ Cardinality(screenshots) = 1

\* C36: in a daily cleanup with no capture beside it, the retention pass
\* deletes only screenshots with a timestamp before the cutoff (now minus
\* retentionDays), and from the end of that pass to the end of the run no
\* stored screenshot has a timestamp before the cutoff.
C36_RetentionRemovesOld ==
  [][(/\ sw["cleanup"].pc \in {"cl_older", "cl_delete"} \cup EnforcePcs
      /\ sw'["cleanup"].pc \in EnforcePcs \cup {"idle"}
      /\ sw'["cleanup"] # sw["cleanup"]
      /\ sw'["cleanup"].res # "error")
     => /\ \A sh \in screenshots' :
             sh.timestamp # Null => sh.timestamp >= sw["cleanup"].ts
        /\ sw["cleanup"].pc \in {"cl_older", "cl_delete"}
           => \A sh \in screenshots \ screenshots' :
                sh.timestamp # Null /\ sh.timestamp < sw["cleanup"].ts]_vars

\* A cleanup has ended after its retention pass deleted the one screenshot
\* older than the cutoff and its quota check found nothing to evict.
C36_Witness ==
  /\ sw["cleanup"].pc = "idle"
  /\ sw["cleanup"].res = "true"
  /\ ~sw["cleanup"].made
  /\ "STORAGE_UPDATED" \in sw["cleanup"].sent
  /\ {sh.timestamp : sh \in screenshots} = {2, 3}

\* ---- the debounce of handleCaptureAndStore, message by message
\* The onMessage listener receives a CAPTURE_CLICK from tab t and reads
\* captureEnabled from chrome.storage.
CaptureClickReceived(t) ==
  /\ clicks > 0
  /\ clicks' = clicks - 1
  /\ received' = Append(received, [tab |-> t, at |-> now])
  /\ calls' = Append(calls, [data |-> Len(received) + 1, pc |-> "enabled"])
  /\ UNCHANGED <<shotVars, tutVars, storageQuotaMB, retentionDays, csVars,
                 dbVars, timers, timerOf, fired, uiVars, now, faults,
                 stepCounter, debouncedCaptures, sw, idbQueue>>

\* No timer is cleared.
clearTimeoutNothing(id) == timers

\* clearTimeout(debouncedCaptures.get(tab.id)).
clearTimeout(id) == {x \in timers : x.data # id}

\* The oldest chrome.storage read of a message handler resolves.  After
\* captureEnabled, handleCaptureAndStore is called (or the message is
\* ignored) and reads debounceMs; after debounceMs, the timer the Map holds
\* for the tab is cleared and a new one is armed and put in the Map.
StorageGot ==
  /\ calls # <<>>
  /\ LET c == Head(calls)
         t == received[c.data].tab
     IN  IF c.pc = "enabled"
         THEN /\ calls' = IF captureEnabled
                          THEN Append(Tail(calls), [c EXCEPT !.pc = "debounce"])
                          ELSE Tail(calls)
              /\ UNCHANGED <<timers, timerOf, debouncedCaptures>>
         ELSE /\ calls' = Tail(calls)
              /\ timers' = (IF timerOf[t] # Null THEN clearTimeout(timerOf[t])
                            ELSE timers)
                           \cup {[data |-> c.data, due |-> now + DebounceTicks]}
              /\ timerOf' = [timerOf EXCEPT ![t] = c.data]
              /\ debouncedCaptures' = [debouncedCaptures EXCEPT ![t] = TRUE]
  /\ UNCHANGED <<shotVars, tutVars, storageQuotaMB, retentionDays, csVars,
                 dbVars, received, fired, uiVars, now, faults, stepCounter,
                 clicks, sw, idbQueue>>

\* An armed timer that is due fires: its callback removes the tab from the
\* Map and starts the capture, up to the read of the screenshot settings.
DebounceEnds(d, c) ==
  /\ d \in timers
  /\ now >= d.due
  /\ sw[c].pc = "idle"
  /\ c = "c2" => sw["c1"].pc # "idle"
  /\ timers' = timers \ {d}
  /\ timerOf' = [timerOf EXCEPT ![received[d.data].tab] = Null]
  /\ debouncedCaptures' =
       [debouncedCaptures EXCEPT ![received[d.data].tab] = FALSE]
  /\ fired' = Append(fired, d.data)
  /\ sw' = [sw EXCEPT ![c] = [IdleSw EXCEPT !.pc = "settings",
                                            !.tab = received[d.data].tab]]
  /\ UNCHANGED <<shotVars, tutVars, storageQuotaMB, retentionDays, csVars,
                 dbVars, received, calls, uiVars, now, faults, stepCounter,
                 clicks, idbQueue>>

InitDebounce ==
  /\ screenshots = {}
  /\ nextScreenshotId = 1
  /\ InitTutorial(0, 0, Null)
  /\ now = 1
  /\ storageQuotaMB = Null
  /\ retentionDays = Null
  /\ faults = MaxFaults
  /\ InitSw(MaxClicks)
  /\ InitUi(0, 0, 0)

NextDebounce ==
  \/ \E t \in Tabs : CaptureClickReceived(t)
  \/ StorageGot
  \/ \E d \in timers, c \in Chains : DebounceEnds(d, c)
  \/ \E c \in Chains : CaptureSettings(c)
  \/ \E c \in Chains : CaptureVisibleTab(c)
  \/ \E c \in Chains : CaptureThumbnail(c)
  \/ \E c \in Chains : CaptureGotCounter(c)
  \/ \E c \in Chains : CaptureSetCounter(c)
  \/ \E c \in Chains : CaptureAdded(c)
  \/ \E c \in Chains : EnforceGotTotal(c)
  \/ Tick

SpecDebounce == InitDebounce /\ [][NextDebounce]_vars

\* C37: a tab has at most one armed capture timer, and of two CAPTURE_CLICK
\* messages of one tab that arrive less than the debounce time apart only
\* the later one is captured; no message is captured twice.
C37_BurstCapturedOnce ==
  /\ \A x, y \in timers :
       received[x.data].tab = received[y.data].tab => x = y
  /\ \A i, j \in 1..Len(fired) : fired[i] = fired[j] => i = j
  /\ \A i \in 1..Len(fired) : \A m \in 1..Len(received) :
       (/\ m > fired[i]
        /\ received[m].tab = received[fired[i]].tab
        /\ received[m].at - received[fired[i]].at < DebounceTicks)
       => FALSE

\* ---- the edit page, one handler at a time, beside the popup's deletion
\* ---- of a screenshot: a header whose steps each show a screenshot
InitAddStep ==
  /\ screenshots = {Shot(i, i, 409600, currentTutorialId) : i \in 1..3}
  /\ nextScreenshotId = 4
  /\ tutorials = {[id |-> currentTutorialId, coverImageId |-> 1]}
  /\ headers = {[id |-> 1, tutorialId |-> currentTutorialId, order |-> 0]}
  /\ \E ns \in 2..3 : steps = {Step(i, 1, i, i - 1) : i \in 1..ns}
  /\ nextTutorialId = 2
  /\ nextHeaderId = 2
  /\ nextStepId = 4
  /\ now = 1
  /\ storageQuotaMB = 1
  /\ retentionDays = 1
  /\ faults = MaxFaults
  /\ InitSw(0)
  /\ InitUi(MaxEdits, MaxPopups, 0)

NextAddStep ==
  \/ \E id \in 1..3, dir \in {"up", "down"} : MoveStart("e1", "step", id, dir)
  \/ MoveWrite("e1")
  \/ AddNewStep("e1", 1)
  \/ AddNewStepDone("e1")
  \/ LoadGotTutorial("e1")
  \/ LoadGotHeaders("e1")
  \/ LoadGotSteps("e1")
  \/ \E sh \in screenshots : PopupDeleteScreenshot(sh.id)
  \/ PopupDeleted
  \/ PopupDeletedSteps
  \/ Tick

SpecAddStep == InitAddStep /\ [][NextAddStep]_vars

\* C38: an addNewStep call whose storage request is not made to fail
\* stores the new step, with an order no other step of the header has.
C38_AddStepSucceeds ==
  [][\A e \in EdOps :
       (ed[e].pc = "as" /\ ed'[e].pc = "idle" /\ faults' = faults)
       => \E st \in steps' \ steps :
            /\ st.id = nextStepId
            /\ \A x \in steps : x.headerId = st.headerId => x.order # st.order]_vars

\* C39: when initDB rejects, the module-level handle db is afterwards not the
\* connection of the open request that failed: it is null, or the connection
\* of another open that succeeded, also when the request fails after its
\* upgrade handler has run.
C39_FailedOpenLeavesNoHandle ==
  [][\A p \in Callers :
       (conn[p].pc = "opening" /\ conn'[p].pc = "rejected")
       => \A r \in {Head(openRequests)} :
            /\ r.p = p
            /\ db' # r.id]_vars

\* C40: within one capture session, which starts with stepCounter 0 and an
\* empty store and in which nothing is deleted, the step numbers of the saved
\* screenshots are pairwise distinct and consecutive from 1: each screenshot
\* that is saved carries the number of screenshots saved before it plus one,
\* also when the captures of different tabs interleave.
C40_StepNumbersConsecutive ==
  [][\A c \in Chains :
       (sw[c].pc = "add" /\ sw'[c].pc # "add" /\ screenshots' # screenshots)
       => sw[c].counter = Cardinality(screenshots) + 1]_vars

====
